---- MODULE Spec2Model ----
(***************************************************************************)
(* A model of rapt2's tree-building layer: the Schema registry, the        *)
(* AttributeList, the Condition AST and the AST node constructors of       *)
(* src/src/rapt2/treebrd/node.py, driven statement by statement the way    *)
(* the tree builder drives them (children are constructed before their     *)
(* parent, statements of a batch in textual order).                        *)
(*                                                                         *)
(* Names are the lower-cased identifiers the grammar hands over.  A text   *)
(* that the code parses or splits (an attribute reference such as          *)
(* "alpha.a1", a literal such as "41") is a sequence of lexemes,           *)
(* <<"alpha", ".", "a1">>, so that parsing and rpartition are computed.    *)
(***************************************************************************)
EXTENDS Integers, Sequences, FiniteSets, TLC

VARIABLES
    schema,   \* Schema._data: relation name -> sequence of attribute names
    seed,     \* the caller-supplied schema mapping the Schema was copied from
    stack,    \* nodes built so far for the statement under construction
    forest,   \* roots of the statements already built, in textual order
    batch,    \* number of statements in the parsed batch
    pc,       \* "building" or "failed" (an error propagated to the caller)
    last,     \* the last constructor call: operator, arguments, outcome
    output,   \* the translator's output lists for the built batch
    parse     \* a text handed to a grammar, and its parse result

vars == <<schema, seed, stack, forest, batch, pc, last, output, parse>>

(* Bounds of the model.                                                    *)

MaxStatements == 3      \* statements per batch
MaxNodes == 4           \* nodes per statement tree
MaxBatchNodes == 3      \* nodes of all the trees of a translated batch
MaxChain == 4           \* operands of a parsed operator chain
MaxStream == 2          \* statements of a parsed input stream
MaxJoinNodes == 5       \* nodes of a translated tree of joins
MaxConditionNodes == 5  \* nodes of a rendered condition tree

(* Universe of inputs.                                                     *)

NoneVal == "None"       \* Python's None (identifiers are lower case)
EmptyStr == ""

RelNames == {"alpha", "beta", "gamma"}
AttrNames == {"a1", "a2", "b1"}

Digits == <<"1", "2", "3", "4", "5">>
Relations == <<"alpha", "beta", "gamma", "delta", "epsilon">>

\* The lexemes of the texts by their shape.  ProtoGrammar.number matches
\* [-+]?[0-9]*\.?[0-9]+ and ProtoGrammar.string_literal a quoted string.
NumberLexemes == {"41"} \cup {Digits[k] : k \in 1..Len(Digits)}
StringLexemes == {"'x'", "']'", "'x y'", "\"x\""}

\* ProtoGrammar.identifier: Word(alphas, alphanums + "_"), a letter followed
\* by letters, digits and underscores.  Every word of the texts is one, the
\* keywords of syntax.py that are spelled with letters included.
Identifiers ==
    {Relations[k] : k \in 1..Len(Relations)} \cup AttrNames
    \cup {"not", "and", "or", "defined", "pk", "mvd", "fd"}
    \cup {"Alpha", "new_alpha", "new_beta", "unknown", "invalid", "syntax"}

\* Python truthiness of a name: None and "" are falsy.
Truthy(name) == name /= NoneVal /\ name /= EmptyStr


(***************************************************************************)
(* Results of an operation that may raise.  error is "ok" or the name of   *)
(* the exception class; a raise carries no value.                          *)
(***************************************************************************)
OK == "ok"
RelationReferenceError == "RelationReferenceError"
AttributeReferenceError == "AttributeReferenceError"
InputError == "InputError"

(***************************************************************************)
(* Schema (rapt2/treebrd/schema.py): name -> ordered attribute names.      *)
(***************************************************************************)
SchemaContains(sch, name) == name \in DOMAIN sch

\* get_attributes: a copy of the attribute names; fails when name is absent.
SchemaGetAttributes(sch, name) ==
    IF SchemaContains(sch, name)
    THEN [error |-> OK, names |-> sch[name]]
    ELSE [error |-> RelationReferenceError, names |-> <<>>]

\* add: fails with a relation-reference error if name already exists.
SchemaAdd(sch, name, attributes) ==
    IF SchemaContains(sch, name)
    THEN [error |-> RelationReferenceError, schema |-> sch]
    ELSE [error |-> OK,
          schema |-> [n \in DOMAIN sch \cup {name} |->
                         IF n = name THEN attributes ELSE sch[n]]]

(***************************************************************************)
(* AttributeList (rapt2/treebrd/attributes.py): an ordered sequence of     *)
(* attributes [prefix, name]; prefix is the owning relation or None.       *)
(***************************************************************************)
AttributeList(names, prefix) ==
    [i \in 1..Len(names) |-> [prefix |-> prefix, name |-> names[i]]]

AttributeNames(attributes) ==
    [i \in 1..Len(attributes) |-> attributes[i].name]

\* Attribute.prefixed: "prefix.name" when the attribute has a prefix.
AttributePrefixed(attribute) ==
    IF Truthy(attribute.prefix)
    THEN <<attribute.prefix, ".", attribute.name>>
    ELSE <<attribute.name>>

\* merge(left, right): the two lists concatenated, each attribute keeping
\* the relation it came from.
AttributeListMerge(first, second) == first \o second

\* reference.rpartition("."): the text before the last "." and after it.
LastDot(reference) ==
    IF \E i \in 1..Len(reference) : reference[i] = "."
    THEN CHOOSE i \in 1..Len(reference) :
            /\ reference[i] = "."
            /\ \A j \in (i+1)..Len(reference) : reference[j] /= "."
    ELSE 0

ReferencePrefix(reference) ==
    IF LastDot(reference) = 0 THEN <<>>
    ELSE SubSeq(reference, 1, LastDot(reference) - 1)

ReferenceName(reference) ==
    SubSeq(reference, LastDot(reference) + 1, Len(reference))

\* The entries a reference resolves to: an unqualified name matches every
\* entry of that name, a qualified one needs the entry's relation tag too.
AttributeMatches(attributes, reference) ==
    {i \in 1..Len(attributes) :
        /\ ReferenceName(reference) = <<attributes[i].name>>
        /\ \/ ReferencePrefix(reference) = <<>>
           \/ ReferencePrefix(reference) = <<attributes[i].prefix>>}

Resolves(attributes, reference) ==
    Cardinality(AttributeMatches(attributes, reference)) = 1

\* validate(references): attribute-reference error unless every reference
\* resolves to exactly one entry.
AttributeListValidate(attributes, references) ==
    IF \A k \in 1..Len(references) : Resolves(attributes, references[k])
    THEN [error |-> OK, attributes |-> attributes]
    ELSE [error |-> AttributeReferenceError, attributes |-> attributes]

\* trim(restriction): the entries the requested references name, in the
\* requested order; fails if a requested attribute cannot be resolved.
AttributeListTrim(attributes, restriction) ==
    IF \A k \in 1..Len(restriction) : Resolves(attributes, restriction[k])
    THEN [error |-> OK,
          attributes |-> [k \in 1..Len(restriction) |->
              attributes[CHOOSE i \in AttributeMatches(attributes, restriction[k]) : TRUE]]]
    ELSE [error |-> AttributeReferenceError, attributes |-> attributes]

\* rename(names, prefix): with no names only the relation tag changes (on
\* every entry); with names they replace the attribute names positionally
\* and their count must match.
AttributeListRename(attributes, names, prefix) ==
    IF Len(names) > 0 /\ Len(names) /= Len(attributes)
    THEN [error |-> InputError, attributes |-> attributes]
    ELSE [error |-> OK,
          attributes |-> AttributeList(
              IF Len(names) > 0 THEN names ELSE AttributeNames(attributes),
              prefix)]

(***************************************************************************)
(* Parse results.  A text is the sequence of its lexemes; a parse result   *)
(* is a sequence of items, an item being a token or a group of items; a    *)
(* token is the sequence of the lexemes it combines.                       *)
(***************************************************************************)
Leaf(lexeme) == [tok |-> <<lexeme>>, items |-> <<>>]
Combined(lexemes) == [tok |-> lexemes, items |-> <<>>]
Group(items) == [tok |-> <<>>, items |-> items]

Parsed(items, rest) == [ok |-> TRUE, items |-> items, rest |-> rest]
ParseException == [ok |-> FALSE, items |-> <<>>, rest |-> <<>>]

StartsWith(text, lexemes) == Len(text) >= 1 /\ text[1] \in lexemes

\* The parse action of ProtoGrammar.identifier: downcaseTokens.
DowncaseTokens(lexeme) == IF lexeme = "Alpha" THEN "alpha" ELSE lexeme

\* The parse action of ProtoGrammar.string_literal: the quotes removed and
\* single quotes put around the string.
SingleQuoted(lexeme) == IF lexeme = "\"x\"" THEN "'x'" ELSE lexeme

\* ProtoGrammar.attribute_reference:
\* Combine(Optional(relation_name + ".") + attribute_name).  The optional
\* part is taken when it matches, and the attribute name has to follow it;
\* the lexemes matched are combined to one token.
AttributeReference(text) ==
    IF ~StartsWith(text, Identifiers) THEN ParseException
    ELSE IF Len(text) >= 2 /\ text[2] = "."
    THEN IF Len(text) >= 3 /\ text[3] \in Identifiers
         THEN Parsed(<<Combined(<<DowncaseTokens(text[1]), ".",
                                  DowncaseTokens(text[3])>>)>>,
                     SubSeq(text, 4, Len(text)))
         ELSE ParseException
    ELSE Parsed(<<Leaf(DowncaseTokens(text[1]))>>, Tail(text))

(***************************************************************************)
(* Condition AST (rapt2/treebrd/condition_node.py).                        *)
(***************************************************************************)
IdentityConditionNode(ident) ==
    [kind |-> "identity", op |-> "", ident |-> ident, children |-> <<>>]

UnaryConditionNode(op, child) ==
    [kind |-> "unary", op |-> op, ident |-> <<>>, children |-> <<child>>]

BinaryConditionNode(op, left, right) ==
    [kind |-> "binary", op |-> op, ident |-> <<>>, children |-> <<left, right>>]

\* ConditionGrammar().attribute_reference.parse_string(ident) returns: the
\* text has to start with an attribute reference; parse_string does not ask
\* for the whole text.
ParsesAsAttributeReference(ident) == AttributeReference(ident).ok

\* A fold that forgets the right operand of a binary condition.
RECURSIVE AttributeReferencesLeftOnly(_)
AttributeReferencesLeftOnly(c) ==
    CASE c.kind = "identity" ->
            IF ParsesAsAttributeReference(c.ident) THEN <<c.ident>> ELSE <<>>
      [] c.kind = "unary" -> AttributeReferencesLeftOnly(c.children[1])
      [] c.kind = "binary" -> AttributeReferencesLeftOnly(c.children[1])

RECURSIVE AttributeReferences(_)
AttributeReferences(c) ==
    CASE c.kind = "identity" ->
            IF ParsesAsAttributeReference(c.ident) THEN <<c.ident>> ELSE <<>>
      [] c.kind = "unary" -> AttributeReferences(c.children[1])
      [] c.kind = "binary" ->
            AttributeReferences(c.children[1]) \o AttributeReferences(c.children[2])

\* ConditionNode.to_sql of the three node classes.
RECURSIVE ConditionToSql(_)
ConditionToSql(c) ==
    LET left == ConditionToSql(c.children[1])
        right == ConditionToSql(c.children[2])
        child == ConditionToSql(c.children[1])
    IN CASE c.kind = "identity" -> c.ident
         [] c.kind = "unary" /\ c.op = "NOT" -> <<"NOT">> \o child
         [] c.kind = "unary" /\ c.op = "DEFINED" -> child \o <<"IS", "NOT", "NULL">>
         [] c.kind = "binary" /\ c.op = "AND" ->
               <<"(">> \o left \o <<"AND">> \o right \o <<")">>
         [] c.kind = "binary" /\ c.op = "OR" ->
               <<"(">> \o left \o <<"OR">> \o right \o <<")">>
         [] c.kind = "binary" /\ c.op = "EQUAL" ->
               <<"(">> \o left \o <<"=">> \o right \o <<")">>
         [] c.kind = "binary" /\ c.op = "NOT_EQUAL" ->
               <<"(">> \o left \o <<"!=">> \o right \o <<")">>
         [] c.kind = "binary" /\ c.op = "LESS_THAN" ->
               <<"(">> \o left \o <<"<">> \o right \o <<")">>
         [] c.kind = "binary" /\ c.op = "LESS_THAN_EQUAL" ->
               <<"(">> \o left \o <<"<=">> \o right \o <<")">>
         [] c.kind = "binary" /\ c.op = "GREATER_THAN" ->
               <<"(">> \o left \o <<">">> \o right \o <<")">>
         [] c.kind = "binary" /\ c.op = "GREATER_THAN_EQUAL" ->
               <<"(">> \o left \o <<">=">> \o right \o <<")">>

\* ConditionNode.to_latex of the three node classes.
RECURSIVE ConditionToLatex(_)
ConditionToLatex(c) ==
    LET left == ConditionToLatex(c.children[1])
        right == ConditionToLatex(c.children[2])
        child == ConditionToLatex(c.children[1])
    IN CASE c.kind = "identity" -> c.ident
         [] c.kind = "unary" /\ c.op = "NOT" -> <<"\\neg">> \o child
         [] c.kind = "unary" /\ c.op = "DEFINED" ->
               <<"\\text{defined}", "(">> \o child \o <<")">>
         [] c.kind = "binary" /\ c.op = "AND" ->
               <<"(">> \o left \o <<"\\land">> \o right \o <<")">>
         [] c.kind = "binary" /\ c.op = "OR" ->
               <<"(">> \o left \o <<"\\lor">> \o right \o <<")">>
         [] c.kind = "binary" /\ c.op = "EQUAL" ->
               <<"(">> \o left \o <<"\\eq">> \o right \o <<")">>
         [] c.kind = "binary" /\ c.op = "NOT_EQUAL" ->
               <<"(">> \o left \o <<"\\neq">> \o right \o <<")">>
         [] c.kind = "binary" /\ c.op = "LESS_THAN" ->
               <<"(">> \o left \o <<"\\lt">> \o right \o <<")">>
         [] c.kind = "binary" /\ c.op = "LESS_THAN_EQUAL" ->
               <<"(">> \o left \o <<"\\leq">> \o right \o <<")">>
         [] c.kind = "binary" /\ c.op = "GREATER_THAN" ->
               <<"(">> \o left \o <<"\\gt">> \o right \o <<")">>
         [] c.kind = "binary" /\ c.op = "GREATER_THAN_EQUAL" ->
               <<"(">> \o left \o <<"\\geq">> \o right \o <<")">>

(***************************************************************************)
(* AST nodes (rapt2/treebrd/node.py).  A constructor yields                *)
(* [error, node, schema]: the exception raised or "ok", the node built,    *)
(* and the Schema as the constructor leaves it.                            *)
(***************************************************************************)
NoNode ==
    [operator |-> "none", name |-> NoneVal, attributes |-> <<>>,
     children |-> <<>>, conditions |-> <<>>]

Raised(error, sch) == [error |-> error, node |-> NoNode, schema |-> sch]

Built(node, sch) == [error |-> OK, node |-> node, schema |-> sch]

RelationNode(name, sch) ==
    LET got == SchemaGetAttributes(sch, name) IN
    IF got.error /= OK THEN Raised(got.error, sch)
    ELSE Built([operator |-> "relation", name |-> name,
                attributes |-> AttributeList(got.names, name),
                children |-> <<>>, conditions |-> <<>>], sch)

\* A definition that replaces an existing entry instead of raising.
DefinitionNodeOverwrite(name, attributes, sch) ==
    Built([operator |-> "definition", name |-> name,
           attributes |-> AttributeList(attributes, name),
           children |-> <<>>, conditions |-> <<>>],
          [n \in DOMAIN sch \cup {name} |->
              IF n = name THEN attributes ELSE sch[n]])

\* A definition that registers its name twice.
DefinitionNodeRegistersTwice(name, attributes, sch) ==
    LET attrs == AttributeList(attributes, name)
        added == SchemaAdd(sch, name, AttributeNames(attrs))
        again == SchemaAdd(added.schema, name, AttributeNames(attrs)) IN
    IF added.error /= OK THEN Raised(added.error, added.schema)
    ELSE Raised(again.error, again.schema)

DefinitionNode(name, attributes, sch) ==
    LET attrs == AttributeList(attributes, name)
        added == SchemaAdd(sch, name, AttributeNames(attrs)) IN
    IF added.error /= OK THEN Raised(added.error, added.schema)
    ELSE Built([operator |-> "definition", name |-> name,
                attributes |-> attrs,
                children |-> <<>>, conditions |-> <<>>], added.schema)

\* UnaryNode.__init__: the child's name stands in for a missing name, and
\* the attributes start as a copy of the child's.
UnaryNode(operator, child, name) ==
    [operator |-> operator,
     name |-> IF Truthy(name) THEN name ELSE child.name,
     attributes |-> child.attributes,
     children |-> <<child>>, conditions |-> <<>>]

SelectNode(child, conditions, sch) ==
    LET self == UnaryNode("select", child, NoneVal)
        valid == AttributeListValidate(self.attributes,
                                       AttributeReferences(conditions)) IN
    IF valid.error /= OK THEN Raised(valid.error, sch)
    ELSE Built([self EXCEPT !.conditions = <<conditions>>], sch)

ProjectNode(child, attributes, sch) ==
    LET self == UnaryNode("project", child, NoneVal)
        trimmed == AttributeListTrim(self.attributes, attributes) IN
    IF trimmed.error /= OK THEN Raised(trimmed.error, sch)
    ELSE Built([self EXCEPT !.attributes = trimmed.attributes], sch)

\* A rename that registers its new name the way an assignment does.
RenameNodeRegisters(child, name, attributes, sch) ==
    LET self == UnaryNode("rename", child, name)
        renamed == AttributeListRename(self.attributes, attributes, self.name) IN
    IF SchemaContains(sch, name) THEN Raised(RelationReferenceError, sch)
    ELSE IF renamed.error /= OK THEN Raised(renamed.error, sch)
    ELSE Built([self EXCEPT !.attributes = renamed.attributes],
               IF Truthy(name)
               THEN SchemaAdd(sch, name, AttributeNames(renamed.attributes)).schema
               ELSE sch)

RenameNode(child, name, attributes, sch) ==
    LET self == UnaryNode("rename", child, name)
        renamed == AttributeListRename(self.attributes, attributes, self.name) IN
    IF SchemaContains(sch, name) THEN Raised(RelationReferenceError, sch)
    ELSE IF renamed.error /= OK THEN Raised(renamed.error, sch)
    ELSE Built([self EXCEPT !.attributes = renamed.attributes], sch)

\* An assignment that builds its node and forgets to register the name.
AssignNodeUnregistered(child, name, attributes, sch) ==
    LET self == UnaryNode("assign", child, name)
        renamed == AttributeListRename(self.attributes, attributes, name) IN
    IF ~Truthy(name) THEN Raised(InputError, sch)
    ELSE IF Len(attributes) > 0 /\ Len(attributes) /= Len(child.attributes)
    THEN Raised(InputError, sch)
    ELSE IF SchemaContains(sch, name) THEN Raised(RelationReferenceError, sch)
    ELSE Built([self EXCEPT !.attributes = renamed.attributes], sch)

\* An assignment that registers the name before renaming the attributes.
AssignNodeRegistersChildNames(child, name, attributes, sch) ==
    LET self == UnaryNode("assign", child, name)
        renamed == AttributeListRename(self.attributes, attributes, name)
        added == SchemaAdd(sch, name, AttributeNames(self.attributes)) IN
    IF ~Truthy(name) THEN Raised(InputError, sch)
    ELSE IF Len(attributes) > 0 /\ Len(attributes) /= Len(child.attributes)
    THEN Raised(InputError, sch)
    ELSE IF added.error /= OK THEN Raised(added.error, added.schema)
    ELSE Built([self EXCEPT !.attributes = renamed.attributes], added.schema)

\* An assignment that replaces an existing entry of the same name.
AssignNodeOverwrite(child, name, attributes, sch) ==
    LET self == UnaryNode("assign", child, name)
        renamed == AttributeListRename(self.attributes, attributes, name) IN
    IF ~Truthy(name) THEN Raised(InputError, sch)
    ELSE IF Len(attributes) > 0 /\ Len(attributes) /= Len(child.attributes)
    THEN Raised(InputError, sch)
    ELSE Built([self EXCEPT !.attributes = renamed.attributes],
               [n \in DOMAIN sch \cup {name} |->
                   IF n = name THEN AttributeNames(renamed.attributes)
                   ELSE sch[n]])

\* An assignment that registers the name before it checks the arguments.
AssignNodeRegistersFirst(child, name, attributes, sch) ==
    LET self == UnaryNode("assign", child, name)
        early == SchemaAdd(sch, name, AttributeNames(child.attributes))
        renamed == AttributeListRename(self.attributes, attributes, name) IN
    IF early.error /= OK THEN Raised(early.error, early.schema)
    ELSE IF ~Truthy(name) THEN Raised(InputError, early.schema)
    ELSE IF Len(attributes) > 0 /\ Len(attributes) /= Len(child.attributes)
    THEN Raised(InputError, early.schema)
    ELSE Built([self EXCEPT !.attributes = renamed.attributes],
               [early.schema EXCEPT ![name] = AttributeNames(renamed.attributes)])

AssignNode(child, name, attributes, sch) ==
    LET self == UnaryNode("assign", child, name)
        renamed == AttributeListRename(self.attributes, attributes, name)
        added == SchemaAdd(sch, name, AttributeNames(renamed.attributes)) IN
    IF ~Truthy(name) THEN Raised(InputError, sch)
    ELSE IF Len(attributes) > 0 /\ Len(attributes) /= Len(child.attributes)
    THEN Raised(InputError, sch)
    ELSE IF renamed.error /= OK THEN Raised(renamed.error, sch)
    ELSE IF added.error /= OK THEN Raised(added.error, added.schema)
    ELSE Built([self EXCEPT !.attributes = renamed.attributes], added.schema)

\* BinaryNode.__init__: operator, name and the two children.
BinaryNode(operator, left, right, name) ==
    [operator |-> operator, name |-> name, attributes |-> <<>>,
     children |-> <<left, right>>, conditions |-> <<>>]

\* A join without the ambiguity guard.
JoinNodeUnguarded(operator, left, right, sch) ==
    Built([BinaryNode(operator, left, right, NoneVal) EXCEPT
              !.attributes = AttributeListMerge(left.attributes,
                                                right.attributes)], sch)

\* JoinNode.__init__: the ambiguity guard, then the merged attribute list.
JoinNode(operator, left, right, sch) ==
    IF Truthy(left.name) /\ Truthy(right.name) /\ left.name = right.name
    THEN Raised(RelationReferenceError, sch)
    ELSE Built([BinaryNode(operator, left, right, NoneVal) EXCEPT
                   !.attributes = AttributeListMerge(left.attributes,
                                                     right.attributes)], sch)

CrossJoinNode(left, right, sch) == JoinNode("cross_join", left, right, sch)

\* The right attributes kept by a natural join: those whose name is not
\* the name of a left attribute.
NaturalJoinRightKept(left, right) ==
    SelectSeq(right.attributes,
              LAMBDA a : \A i \in 1..Len(left.attributes) :
                            left.attributes[i].name /= a.name)

\* A natural join that compares qualified names, so never drops a right
\* attribute.
NaturalJoinNodeKeepsRight(left, right, sch) ==
    LET joined == JoinNode("natural_join", left, right, sch)
        kept == left.attributes \o
                SelectSeq(right.attributes,
                          LAMBDA a : \A i \in 1..Len(left.attributes) :
                              AttributePrefixed(left.attributes[i]) /=
                              AttributePrefixed(a))
        restriction == [k \in 1..Len(kept) |-> AttributePrefixed(kept[k])]
        trimmed == AttributeListTrim(joined.node.attributes, restriction) IN
    IF joined.error /= OK THEN joined
    ELSE IF trimmed.error /= OK THEN Raised(trimmed.error, sch)
    ELSE Built([joined.node EXCEPT !.attributes = trimmed.attributes], sch)

NaturalJoinNode(left, right, sch) ==
    LET joined == JoinNode("natural_join", left, right, sch)
        kept == left.attributes \o NaturalJoinRightKept(left, right)
        restriction == [k \in 1..Len(kept) |-> AttributePrefixed(kept[k])]
        trimmed == AttributeListTrim(joined.node.attributes, restriction) IN
    IF joined.error /= OK THEN joined
    ELSE IF trimmed.error /= OK THEN Raised(trimmed.error, sch)
    ELSE Built([joined.node EXCEPT !.attributes = trimmed.attributes], sch)

\* ThetaJoinNode and the three outer joins share one constructor body.
ConditionJoinNode(operator, left, right, conditions, sch) ==
    LET joined == JoinNode(operator, left, right, sch)
        valid == AttributeListValidate(joined.node.attributes,
                                       AttributeReferences(conditions)) IN
    IF joined.error /= OK THEN joined
    ELSE IF valid.error /= OK THEN Raised(valid.error, sch)
    ELSE Built([joined.node EXCEPT !.conditions = <<conditions>>], sch)

ThetaJoinNode(left, right, conditions, sch) ==
    ConditionJoinNode("theta_join", left, right, conditions, sch)

FullOuterJoinNode(left, right, conditions, sch) ==
    ConditionJoinNode("full_outer_join", left, right, conditions, sch)

LeftOuterJoinNode(left, right, conditions, sch) ==
    ConditionJoinNode("left_outer_join", left, right, conditions, sch)

RightOuterJoinNode(left, right, conditions, sch) ==
    ConditionJoinNode("right_outer_join", left, right, conditions, sch)

\* A set operator that compares the attribute names as sets.
SetOperatorNodeUnordered(operator, left, right, sch) ==
    LET names == AttributeNames(left.attributes)
        others == AttributeNames(right.attributes) IN
    IF {names[i] : i \in 1..Len(names)} /= {others[i] : i \in 1..Len(others)}
    THEN Raised(InputError, sch)
    ELSE Built([BinaryNode(operator, left, right, NoneVal) EXCEPT
                   !.attributes = AttributeList(names, NoneVal)], sch)

\* SetOperatorNode.__init__: identical attribute-name sequences required;
\* the node's attributes are those names with no relation qualifier.
SetOperatorNode(operator, left, right, sch) ==
    LET names == AttributeNames(left.attributes) IN
    IF names /= AttributeNames(right.attributes)
    THEN Raised(InputError, sch)
    ELSE Built([BinaryNode(operator, left, right, NoneVal) EXCEPT
                   !.attributes = AttributeList(names, NoneVal)], sch)

UnionNode(left, right, sch) == SetOperatorNode("union", left, right, sch)

DifferenceNode(left, right, sch) == SetOperatorNode("difference", left, right, sch)

IntersectNode(left, right, sch) == SetOperatorNode("intersect", left, right, sch)

\* DependencyNode.__init__: no name; relation_name and the attribute names
\* as handed over (plain names, not an AttributeList).
DependencyNode(operator, relation_name, attributes) ==
    [operator |-> operator, name |-> NoneVal, attributes |-> attributes,
     children |-> <<>>, conditions |-> <<>>, relation_name |-> relation_name]

\* A primary key that records the key in the Schema entry of its relation.
PrimaryKeyNodeRecordsKey(relation_name, attributes, sch) ==
    Built(DependencyNode("primary_key", relation_name, attributes),
          IF SchemaContains(sch, relation_name)
          THEN [sch EXCEPT ![relation_name] = attributes]
          ELSE sch)

PrimaryKeyNode(relation_name, attributes, sch) ==
    Built(DependencyNode("primary_key", relation_name, attributes), sch)

MultivaluedDependencyNode(relation_name, attributes, relation_node, sch) ==
    Built([DependencyNode("multivalued_dependency", relation_name, attributes)
              EXCEPT !.children = <<relation_node>>], sch)

FunctionalDependencyNode(relation_name, attributes, relation_node, sch) ==
    Built([DependencyNode("functional_dependency", relation_name, attributes)
              EXCEPT !.children = <<relation_node>>], sch)

InclusionEquivalenceNode(relation_names, attributes, left_child, right_child, sch) ==
    Built([DependencyNode("inclusion_equivalence", relation_names, attributes)
              EXCEPT !.children = <<left_child, right_child>>], sch)

InclusionSubsumptionNode(relation_names, attributes, left_child, right_child, sch) ==
    Built([DependencyNode("inclusion_subsumption", relation_names, attributes)
              EXCEPT !.children = <<left_child, right_child>>], sch)

(***************************************************************************)
(* Node equality (__eq__ / __ne__).  The result is "True", "False", or the *)
(* exception the comparison raises.                                        *)
(***************************************************************************)
AttributeError == "AttributeError"

\* x and y, y evaluated only when x is True.
AndThen(x, y) == IF x = "True" THEN y ELSE x

Bool(b) == IF b THEN "True" ELSE "False"

\* Node.__eq__: each node class has an operator tag of its own.
NodeBaseEq(self, other) ==
    IF self.operator /= other.operator THEN "False"
    ELSE IF self.name /= other.name THEN "False"
    ELSE IF self.attributes /= other.attributes THEN "False"
    ELSE "True"

\* The classes whose instances have a conditions field.
WithConditions ==
    {"select", "theta_join", "full_outer_join", "left_outer_join",
     "right_outer_join"}

RECURSIVE NodeEq(_, _)

\* UnaryNode.__eq__
UnaryNodeEq(self, other) ==
    AndThen(NodeBaseEq(self, other),
            NodeEq(self.children[1], other.children[1]))

\* BinaryNode.__eq__
BinaryNodeEq(self, other) ==
    AndThen(NodeBaseEq(self, other),
            AndThen(NodeEq(self.children[1], other.children[1]),
                    NodeEq(self.children[2], other.children[2])))

\* self.conditions == other.conditions and super().__eq__(other): reading
\* other.conditions comes first.
ConditionsAndThen(self, other, super_eq) ==
    IF other.operator \notin WithConditions THEN AttributeError
    ELSE AndThen(Bool(self.conditions = other.conditions), super_eq)

\* DependencyNode.__eq__
DependencyNodeEq(self, other) ==
    AndThen(NodeBaseEq(self, other),
            Bool(/\ self.relation_name = other.relation_name
                 /\ self.attributes = other.attributes))

NodeEq(self, other) ==
    CASE self.operator \in {"relation", "definition"} -> NodeBaseEq(self, other)
      [] self.operator = "select" ->
            ConditionsAndThen(self, other, UnaryNodeEq(self, other))
      [] self.operator \in {"project", "rename", "assign"} ->
            UnaryNodeEq(self, other)
      [] self.operator \in {"theta_join", "full_outer_join", "left_outer_join",
                            "right_outer_join"} ->
            ConditionsAndThen(self, other, BinaryNodeEq(self, other))
      [] self.operator \in {"cross_join", "natural_join", "union", "difference",
                            "intersect"} ->
            BinaryNodeEq(self, other)
      [] self.operator = "primary_key" -> DependencyNodeEq(self, other)
      [] self.operator \in {"multivalued_dependency", "functional_dependency"} ->
            AndThen(DependencyNodeEq(self, other),
                    NodeEq(self.children[1], other.children[1]))
      [] self.operator \in {"inclusion_equivalence", "inclusion_subsumption"} ->
            AndThen(DependencyNodeEq(self, other),
                    AndThen(Bool(self.relation_name = other.relation_name),
                            AndThen(NodeEq(self.children[1], other.children[1]),
                                    NodeEq(self.children[2], other.children[2]))))

\* Node.__ne__: not self.__eq__(other)
NodeNe(self, other) ==
    LET eq == NodeEq(self, other) IN
    IF eq = "True" THEN "False" ELSE IF eq = "False" THEN "True" ELSE eq

(***************************************************************************)
(* Inputs of the tree builder: what a parsed statement can carry.          *)
(***************************************************************************)
SeedNames == {"alpha", "beta"}
\* Relation schemas: the attribute names of a relation are pairwise distinct.
SeedAttributeLists ==
    {<<"a1">>, <<"a1", "a2">>, <<"a2", "a1">>, <<"a1", "b1">>}

\* The caller-supplied schemas: every mapping of some seed names.
SeedSchemas == UNION {[D -> SeedAttributeLists] : D \in SUBSET SeedNames}

DefinitionAttributeLists == {<<"a1">>, <<"a1", "b1">>, <<"b1", "a2">>}

Ref(name) == <<name>>
QRef(relation, name) == <<relation, ".", name>>

ProjectLists ==
    {<<Ref("a1")>>, <<Ref("a2"), Ref("a1")>>, <<QRef("alpha", "a1")>>,
     <<QRef("gamma", "b1")>>}

RenameAttributeLists == {<<>>, <<"b1">>, <<"b1", "a2">>}


Number == IdentityConditionNode(<<"41">>)
String == IdentityConditionNode(<<"'x'">>)
Bracket == IdentityConditionNode(<<"']'">>)
Equal(l, r) == BinaryConditionNode("EQUAL", l, r)

Conditions ==
    {Equal(IdentityConditionNode(Ref("a1")), Number),
     Equal(IdentityConditionNode(Ref("b1")), String),
     Equal(IdentityConditionNode(QRef("alpha", "a1")), Number),
     Equal(IdentityConditionNode(QRef("beta", "a2")), Number),
     Equal(Number, String),
     UnaryConditionNode("NOT",
         Equal(IdentityConditionNode(Ref("a2")), IdentityConditionNode(Ref("a1")))),
     UnaryConditionNode("DEFINED", IdentityConditionNode(Ref("a2"))),
     BinaryConditionNode("AND",
         Equal(IdentityConditionNode(Ref("a2")), Number),
         Equal(String, IdentityConditionNode(QRef("beta", "b1")))),
     Equal(IdentityConditionNode(Ref("a1")), Bracket)}

ConditionJoinOperators ==
    {"theta_join", "full_outer_join", "left_outer_join", "right_outer_join"}

SetOperators == {"union", "difference", "intersect"}

DependencyOperators ==
    {"primary_key", "multivalued_dependency", "functional_dependency",
     "inclusion_equivalence", "inclusion_subsumption"}

DependencyAttributeLists == {<<"a1", "a2">>, <<"a1", "b1">>}
PrimaryKeyAttributeLists == {<<"a1">>, <<"a1", "a2">>}

(***************************************************************************)
(* Output text.  A produced string is the sequence of its lexemes: SQL     *)
(* keywords, LaTeX brackets and commands, names and literals; blanks are   *)
(* left out.                                                               *)
(***************************************************************************)
\* sep.join(parts), each part a sequence of lexemes.
RECURSIVE JoinTokens(_, _)
JoinTokens(parts, sep) ==
    IF Len(parts) = 0 THEN <<>>
    ELSE IF Len(parts) = 1 THEN parts[1]
    ELSE parts[1] \o sep \o JoinTokens(Tail(parts), sep)

NameTokens(names) == [i \in 1..Len(names) |-> <<names[i]>>]

\* str(AttributeList): the qualified names separated by ", ".
AttributeListStr(attributes) ==
    JoinTokens([i \in 1..Len(attributes) |-> AttributePrefixed(attributes[i])],
               <<",">>)

\* id(node): the address of the node object, told apart here by the node's
\* place in its tree.  ids maps the places to the names "_<id>".
TempNames == {"_140001", "_140002", "_140003"}

(***************************************************************************)
(* SQL translator (rapt2/transformers/sql/sql_translator.py).              *)
(***************************************************************************)
SQLQuery(select_block, from_block, where_block) ==
    [kind |-> "query", prefix |-> <<>>, select_block |-> select_block,
     from_block |-> from_block, where_block |-> where_block]

SQLAlterTableQuery(table_name, action, attributes) ==
    [kind |-> "alter", prefix |-> <<>>, select_block |-> <<>>,
     from_block |-> <<>>, where_block |-> <<>>,
     table_name |-> table_name, action |-> action, attributes |-> attributes]

NoQuery ==
    [kind |-> "none", prefix |-> <<>>, select_block |-> <<>>,
     from_block |-> <<>>, where_block |-> <<>>]

\* SQLQuery.to_sql, SQLSetQuery.to_sql (bag = FALSE) and
\* SQLAlterTableQuery.to_sql.
ToSql(query, bag) ==
    IF query.kind = "alter"
    THEN <<"ALTER", "TABLE", query.table_name>> \o query.action \o <<"(">>
         \o query.attributes \o <<")">>
    ELSE LET basic ==
               IF ~bag
               THEN query.prefix \o <<"SELECT", "DISTINCT">> \o query.select_block
                    \o <<"FROM">> \o query.from_block
               ELSE IF Len(query.select_block) > 0
               THEN query.prefix \o <<"SELECT">> \o query.select_block
                    \o <<"FROM">> \o query.from_block
               ELSE query.prefix \o query.from_block
         IN IF Len(query.where_block) > 0
            THEN basic \o <<"WHERE">> \o query.where_block
            ELSE basic

SQLOperator(operator) ==
    CASE operator = "union" -> <<"UNION">>
      [] operator = "difference" -> <<"EXCEPT">>
      [] operator = "intersect" -> <<"INTERSECT">>
      [] operator = "cross_join" -> <<"CROSS", "JOIN">>
      [] operator = "theta_join" -> <<"JOIN">>
      [] operator = "natural_join" -> <<"NATURAL", "JOIN">>
      [] operator = "full_outer_join" -> <<"FULL", "OUTER", "JOIN">>
      [] operator = "left_outer_join" -> <<"LEFT", "OUTER", "JOIN">>
      [] operator = "right_outer_join" -> <<"RIGHT", "OUTER", "JOIN">>

SQLBinaryConditionOperator(op) ==
    CASE op = "AND" -> "AND"
      [] op = "OR" -> "OR"
      [] op = "EQUAL" -> "="
      [] op = "NOT_EQUAL" -> "!="
      [] op = "LESS_THAN" -> "<"
      [] op = "LESS_THAN_EQUAL" -> "<="
      [] op = "GREATER_THAN" -> ">"
      [] op = "GREATER_THAN_EQUAL" -> ">="

RECURSIVE SQLTranslateCondition(_)
SQLTranslateCondition(c) ==
    CASE c.kind = "identity" -> c.ident
      [] c.kind = "unary" /\ c.op = "NOT" ->
            <<"NOT">> \o SQLTranslateCondition(c.children[1])
      [] c.kind = "unary" /\ c.op = "DEFINED" ->
            SQLTranslateCondition(c.children[1]) \o <<"IS", "NOT", "NULL">>
      [] c.kind = "binary" ->
            <<"(">> \o SQLTranslateCondition(c.children[1])
            \o <<SQLBinaryConditionOperator(c.op)>>
            \o SQLTranslateCondition(c.children[2]) \o <<")">>

\* _get_temp_name: node.name or "_{id(node)}".
GetTempName(node, path, ids) ==
    IF Truthy(node.name) THEN node.name ELSE ids[path]

JoinFamily == {"cross_join", "natural_join"} \cup ConditionJoinOperators

RECURSIVE SQLTranslate(_, _, _, _)

SQLRelation(node) ==
    SQLQuery(AttributeListStr(node.attributes), <<node.name>>, <<>>)

\* A select that overwrites the WHERE of its child with its own condition.
SQLSelectOverwritesWhere(node, path, ids, bag) ==
    LET child_object == SQLTranslate(node.children[1], Append(path, 1), ids, bag)
    IN [child_object EXCEPT
           !.where_block = SQLTranslateCondition(node.conditions[1]),
           !.select_block = IF Len(child_object.select_block) = 0
                            THEN AttributeListStr(node.attributes)
                            ELSE @]

SQLSelect(node, path, ids, bag) ==
    LET child_object == SQLTranslate(node.children[1], Append(path, 1), ids, bag)
        conditions == SQLTranslateCondition(node.conditions[1])
        where_block ==
            IF Len(child_object.where_block) > 0
            THEN <<"(">> \o child_object.where_block \o <<")", "AND", "(">>
                 \o conditions \o <<")">>
            ELSE conditions
    IN [child_object EXCEPT
           !.where_block = where_block,
           !.select_block = IF Len(child_object.select_block) = 0
                            THEN AttributeListStr(node.attributes)
                            ELSE @]

SQLProject(node, path, ids, bag) ==
    LET child_object == SQLTranslate(node.children[1], Append(path, 1), ids, bag)
    IN [child_object EXCEPT !.select_block = AttributeListStr(node.attributes)]

SQLRename(node, path, ids, bag) ==
    LET child_object == SQLTranslate(node.children[1], Append(path, 1), ids, bag)
        from_block ==
            <<"(">> \o ToSql(child_object, bag) \o <<")", "AS", node.name, "(">>
            \o JoinTokens(NameTokens(AttributeNames(node.attributes)), <<",">>)
            \o <<")">>
    IN SQLQuery(AttributeListStr(node.attributes), from_block, <<>>)

SQLAssign(node, path, ids, bag) ==
    LET child_object == SQLTranslate(node.children[1], Append(path, 1), ids, bag)
    IN [child_object EXCEPT
           !.prefix = <<"CREATE", "TEMPORARY", "TABLE", node.name, "(">>
                      \o JoinTokens(NameTokens(AttributeNames(node.attributes)),
                                    <<",">>)
                      \o <<")", "AS">>]

\* A _join_helper that also inlines a bare relation.
SQLJoinHelperInlinesRelations(node, path, ids, bag) ==
    LET sobject == SQLTranslate(node, path, ids, bag) IN
    IF node.operator \in JoinFamily \cup {"relation"} THEN sobject.from_block
    ELSE <<"(">> \o ToSql(sobject, bag)
         \o <<")", "AS", GetTempName(node, path, ids)>>

\* _join_helper: a join side is inlined when it is itself a join, otherwise
\* wrapped as a derived table under its name or a synthetic one.
SQLJoinHelper(node, path, ids, bag) ==
    LET sobject == SQLTranslate(node, path, ids, bag) IN
    IF node.operator \in JoinFamily THEN sobject.from_block
    ELSE <<"(">> \o ToSql(sobject, bag)
         \o <<")", "AS", GetTempName(node, path, ids)>>

SQLJoin(node, path, ids, bag) ==
    LET joined ==
            SQLJoinHelper(node.children[1], Append(path, 1), ids, bag)
            \o SQLOperator(node.operator)
            \o SQLJoinHelper(node.children[2], Append(path, 2), ids, bag)
        from_block ==
            IF node.operator \in ConditionJoinOperators
            THEN joined \o <<"ON">> \o SQLTranslateCondition(node.conditions[1])
            ELSE joined
    IN SQLQuery(AttributeListStr(node.attributes), from_block, <<>>)

\* A set-semantics _set_op that keeps the ALL of the bag translator.
SQLSetOpKeepsAll(node, path, ids, bag) ==
    SQLQuery(AttributeListStr(node.attributes),
             <<"(">>
             \o ToSql(SQLTranslate(node.children[1], Append(path, 1), ids, bag), bag)
             \o SQLOperator(node.operator) \o <<"ALL">>
             \o ToSql(SQLTranslate(node.children[2], Append(path, 2), ids, bag), bag)
             \o <<")", "AS", GetTempName(node, path, ids)>>,
             <<>>)

\* SQLTranslator._set_op (bag) and SetTranslator._set_op (no ALL).
SQLSetOp(node, path, ids, bag) ==
    SQLQuery(AttributeListStr(node.attributes),
             <<"(">>
             \o ToSql(SQLTranslate(node.children[1], Append(path, 1), ids, bag), bag)
             \o SQLOperator(node.operator) \o (IF bag THEN <<"ALL">> ELSE <<>>)
             \o ToSql(SQLTranslate(node.children[2], Append(path, 2), ids, bag), bag)
             \o <<")", "AS", GetTempName(node, path, ids)>>,
             <<>>)

SQLPrimaryKey(node) ==
    SQLAlterTableQuery(node.relation_name, <<"ADD", "PRIMARY", "KEY">>,
                       JoinTokens(NameTokens(node.attributes), <<",">>))

\* BaseTranslator.translate over the methods of SQLTranslator.
SQLTranslate(node, path, ids, bag) ==
    CASE node.operator = "relation" -> SQLRelation(node)
      [] node.operator = "select" -> SQLSelect(node, path, ids, bag)
      [] node.operator = "project" -> SQLProject(node, path, ids, bag)
      [] node.operator = "rename" -> SQLRename(node, path, ids, bag)
      [] node.operator = "assign" -> SQLAssign(node, path, ids, bag)
      [] node.operator = "definition" -> NoQuery
      [] node.operator \in JoinFamily -> SQLJoin(node, path, ids, bag)
      [] node.operator \in SetOperators -> SQLSetOp(node, path, ids, bag)
      [] node.operator = "primary_key" -> SQLPrimaryKey(node)
      [] node.operator \in DependencyOperators \ {"primary_key"} -> NoQuery

(***************************************************************************)
(* QTree translator (rapt2/transformers/qtree/qtree_translator.py).        *)
(***************************************************************************)
LatexOperator(operator) ==
    CASE operator = "select" -> "\\sigma"
      [] operator = "project" -> "\\pi"
      [] operator = "rename" -> "\\rho"
      [] operator = "assign" -> ":="
      [] operator = "cross_join" -> "\\times"
      [] operator = "natural_join" -> "\\bowtie"
      [] operator = "theta_join" -> "\\times"
      [] operator = "full_outer_join" -> "\\fullouterjoin"
      [] operator = "left_outer_join" -> "\\leftouterjoin"
      [] operator = "right_outer_join" -> "\\rightouterjoin"
      [] operator = "union" -> "\\cup"
      [] operator = "difference" -> "-"
      [] operator = "intersect" -> "\\cap"
      [] operator = "primary_key" -> "\\text{PK}"
      [] operator = "multivalued_dependency" -> "\\twoheadrightarrow"
      [] operator = "functional_dependency" -> "\\rightarrow"
      [] operator = "inclusion_equivalence" -> "\\equiv"
      [] operator = "inclusion_subsumption" -> "\\subseteq"

ConditionalLatexOperator(op) ==
    CASE op = "AND" -> "\\land"
      [] op = "OR" -> "\\lor"
      [] op = "EQUAL" -> "\\eq"
      [] op = "NOT_EQUAL" -> "\\neq"
      [] op = "LESS_THAN" -> "\\lt"
      [] op = "LESS_THAN_EQUAL" -> "\\leq"
      [] op = "GREATER_THAN" -> "\\gt"
      [] op = "GREATER_THAN_EQUAL" -> "\\geq"
      [] op = "NOT" -> "\\neg"
      [] op = "DEFINED" -> "\\text{defined}"

\* name.replace('_', r'\_') if name else '': the names that hold an
\* underscore, with their escaped form.
EscapedNames ==
    [n \in {"new_alpha", "new_beta"} |->
        IF n = "new_alpha" THEN "new\\_alpha" ELSE "new\\_beta"]

LatexName(name) ==
    IF ~Truthy(name) THEN <<>>
    ELSE IF name \in DOMAIN EscapedNames THEN <<EscapedNames[name]>>
    ELSE <<name>>

\* r",\,".join(names)
LatexNames(names) == JoinTokens(NameTokens(names), <<",\\,">>)

\* A translator that writes DEFINED the way it writes NOT, without
\* parentheses around the operand.
RECURSIVE QTreeTranslateConditionBareDefined(_)
QTreeTranslateConditionBareDefined(c) ==
    CASE c.kind = "identity" -> c.ident
      [] c.kind = "unary" ->
            <<ConditionalLatexOperator(c.op)>>
            \o QTreeTranslateConditionBareDefined(c.children[1])
      [] c.kind = "binary" ->
            <<"(">> \o QTreeTranslateConditionBareDefined(c.children[1])
            \o <<ConditionalLatexOperator(c.op)>>
            \o QTreeTranslateConditionBareDefined(c.children[2]) \o <<")">>

RECURSIVE QTreeTranslateCondition(_)
QTreeTranslateCondition(c) ==
    CASE c.kind = "identity" -> c.ident
      [] c.kind = "unary" /\ c.op = "DEFINED" ->
            <<ConditionalLatexOperator(c.op), "(">>
            \o QTreeTranslateCondition(c.children[1]) \o <<")">>
      [] c.kind = "unary" /\ c.op /= "DEFINED" ->
            <<ConditionalLatexOperator(c.op)>>
            \o QTreeTranslateCondition(c.children[1])
      [] c.kind = "binary" ->
            <<"(">> \o QTreeTranslateCondition(c.children[1])
            \o <<ConditionalLatexOperator(c.op)>>
            \o QTreeTranslateCondition(c.children[2]) \o <<")">>

\* The label of one side of a dependency: the relation name, or the
\* selection over it when the side is Select-filtered.
QTreeDependencySide(child) ==
    IF child.operator = "select"
    THEN <<LatexOperator(child.operator), "_{">>
         \o QTreeTranslateCondition(child.conditions[1])
         \o <<"}", "(", child.name, ")">>
    ELSE <<child.name>>

RECURSIVE QTreeTranslate(_)
QTreeTranslate(node) ==
    CASE node.operator = "relation" ->
            <<"[.$">> \o LatexName(node.name) \o <<"$", "]">>
      [] node.operator = "select" ->
            <<"[.$", LatexOperator(node.operator), "_{">>
            \o QTreeTranslateCondition(node.conditions[1]) \o <<"}", "$">>
            \o QTreeTranslate(node.children[1]) \o <<"]">>
      [] node.operator = "project" ->
            <<"[.$", LatexOperator(node.operator), "_{">>
            \o LatexNames(AttributeNames(node.attributes)) \o <<"}", "$">>
            \o QTreeTranslate(node.children[1]) \o <<"]">>
      [] node.operator = "rename" ->
            <<"[.$", LatexOperator(node.operator), "_{">>
            \o LatexName(node.name)
            \o (IF Len(node.attributes) > 0
                THEN <<"(">> \o LatexNames(AttributeNames(node.attributes)) \o <<")">>
                ELSE <<>>)
            \o <<"}", "$">> \o QTreeTranslate(node.children[1]) \o <<"]">>
      [] node.operator = "assign" ->
            <<"[.$">> \o LatexName(node.name)
            \o (IF Len(node.attributes) > 0
                THEN <<"(">> \o LatexNames(AttributeNames(node.attributes)) \o <<")">>
                ELSE <<>>)
            \o <<"$">> \o QTreeTranslate(node.children[1]) \o <<"]">>
      [] node.operator = "definition" ->
            <<"[.$">> \o LatexName(node.name)
            \o <<"(">> \o LatexNames(AttributeNames(node.attributes)) \o <<")">>
            \o <<"$", "]">>
      [] node.operator \in ConditionJoinOperators ->
            <<"[.$", LatexOperator(node.operator), "_{">>
            \o QTreeTranslateCondition(node.conditions[1]) \o <<"}", "$">>
            \o QTreeTranslate(node.children[1])
            \o QTreeTranslate(node.children[2]) \o <<"]">>
      [] node.operator \in {"cross_join", "natural_join"} \cup SetOperators ->
            <<"[.$", LatexOperator(node.operator), "$">>
            \o QTreeTranslate(node.children[1])
            \o QTreeTranslate(node.children[2]) \o <<"]">>
      [] node.operator = "primary_key" ->
            <<"[.$", LatexOperator(node.operator), "(", node.relation_name, ")",
              "\\eq", "{">> \o LatexNames(node.attributes) \o <<"}", "$", "]">>
      [] node.operator \in {"multivalued_dependency", "functional_dependency"} ->
            <<"[.$">> \o QTreeDependencySide(node.children[1])
            \o <<":", node.attributes[1], LatexOperator(node.operator),
                 node.attributes[2], "$", "]">>
      [] node.operator \in {"inclusion_equivalence", "inclusion_subsumption"} ->
            <<"[.$">> \o QTreeDependencySide(node.children[1])
            \o <<"[", node.attributes[1], "]", LatexOperator(node.operator)>>
            \o QTreeDependencySide(node.children[2])
            \o <<"[", node.attributes[2], "]", "$", "]">>

(***************************************************************************)
(* Grammars.                                                               *)
(***************************************************************************)
\* ConditionGrammar.operand:
\* attribute_reference | string_literal | number, one token.
Operand(text) ==
    IF AttributeReference(text).ok THEN AttributeReference(text)
    ELSE IF StartsWith(text, StringLexemes)
    THEN Parsed(<<Leaf(SingleQuoted(text[1]))>>, Tail(text))
    ELSE IF StartsWith(text, NumberLexemes)
    THEN Parsed(<<Leaf(text[1])>>, Tail(text))
    ELSE ParseException

\* ConditionGrammar.comparator_op
ComparatorOps == {"=", "!=", "<>", "<", "<=", ">", ">="}

\* ConditionGrammar.condition: Group(operand + comparator_op + operand)
Comparison(text) ==
    IF /\ Operand(text).ok
       /\ StartsWith(Operand(text).rest, ComparatorOps)
       /\ Operand(Tail(Operand(text).rest)).ok
    THEN Parsed(<<Group(Operand(text).items
                        \o <<Leaf(Operand(text).rest[1])>>
                        \o Operand(Tail(Operand(text).rest)).items)>>,
                Operand(Tail(Operand(text).rest)).rest)
    ELSE ParseException

\* ExtendedGrammar.defined_condition:
\* Group(defined_op + Suppress("(") + operand + Suppress(")"))
DefinedCondition(text) ==
    IF /\ StartsWith(text, {"defined"})
       /\ StartsWith(Tail(text), {"("})
       /\ Operand(Tail(Tail(text))).ok
       /\ StartsWith(Operand(Tail(Tail(text))).rest, {")"})
    THEN Parsed(<<Group(<<Leaf("defined")>> \o Operand(Tail(Tail(text))).items)>>,
                Tail(Operand(Tail(Tail(text))).rest))
    ELSE ParseException

\* The op_list of ConditionGrammar.conditions with the binary operators
\* declared right-associative.
ConditionOpListRightAssociative ==
    <<[operators |-> {"not"}, arity |-> 1, assoc |-> "RIGHT"],
      [operators |-> {"and", "or"}, arity |-> 2, assoc |-> "RIGHT"]>>

\* The op_list of ConditionGrammar.conditions, tightest level first.
ConditionOpList ==
    <<[operators |-> {"not"}, arity |-> 1, assoc |-> "RIGHT"],
      [operators |-> {"and", "or"}, arity |-> 2, assoc |-> "LEFT"]>>

UnaryOps == {"\\select", "\\project", "\\rename"}

BinaryOpP1 ==
    {"\\join", "\\natural_join", "\\theta_join", "\\full_outer_join",
     "\\left_outer_join", "\\right_outer_join"}

BinaryOpP2 == {"\\union", "\\difference"}

\* An op_list in which intersect shares the level of union and difference.
ExpressionOpListIntersectWithUnion ==
    <<[operators |-> UnaryOps, arity |-> 1, assoc |-> "RIGHT"],
      [operators |-> BinaryOpP1, arity |-> 2, assoc |-> "LEFT"],
      [operators |-> {}, arity |-> 2, assoc |-> "LEFT"],
      [operators |-> BinaryOpP2 \cup {"\\intersect"}, arity |-> 2,
       assoc |-> "LEFT"]>>

\* The op_list of ExtendedGrammar.expression, tightest level first.
ExpressionOpList ==
    <<[operators |-> UnaryOps, arity |-> 1, assoc |-> "RIGHT"],
      [operators |-> BinaryOpP1, arity |-> 2, assoc |-> "LEFT"],
      [operators |-> {"\\intersect"}, arity |-> 2, assoc |-> "LEFT"],
      [operators |-> BinaryOpP2, arity |-> 2, assoc |-> "LEFT"]>>

\* The grammars by the rule parsed, its op_list, and whether its base
\* condition is the one ExtendedGrammar overrides, which takes
\* defined_condition as a second alternative.
ConditionGrammar ==
    [kind |-> "conditions", op_list |-> ConditionOpList, defined |-> FALSE]

\* The conditions rule as ExtendedGrammar and its subclasses inherit it.
ExtendedConditions ==
    [kind |-> "conditions", op_list |-> ConditionOpList, defined |-> TRUE]

ExtendedGrammar ==
    [kind |-> "expression", op_list |-> ExpressionOpList, defined |-> TRUE]

\* The operators written with a parameter block: the unary operators, the
\* long theta join and the outer joins, and the join operator, which
\* followed by a block is the short theta join.  The block of a select or
\* of a join holds conditions; the other blocks hold attribute lists.
Parametrized ==
    UnaryOps \cup {"\\theta_join", "\\join", "\\full_outer_join",
                   "\\left_outer_join", "\\right_outer_join"}
ConditionParametrized == Parametrized \ {"\\project", "\\rename"}

\* ExtendedGrammar.theta_parse_action: the short theta join is rewritten to
\* the theta join operator.
ThetaParseAction(operator) ==
    IF operator = "\\join" THEN "\\theta_join" ELSE operator

RECURSIVE ParseLevel(_, _, _)
RECURSIVE ParseOperator(_, _, _)
RECURSIVE ChainTail(_, _, _, _, _)
RECURSIVE AttributeParams(_)

\* attribute_name ("," attribute_name)*
AttributeParams(text) ==
    IF ~StartsWith(text, Identifiers) THEN ParseException
    ELSE LET more == AttributeParams(Tail(Tail(text))) IN
         IF StartsWith(Tail(text), {","}) /\ more.ok
         THEN Parsed(<<Leaf(DowncaseTokens(text[1]))>> \o more.items, more.rest)
         ELSE Parsed(<<Leaf(DowncaseTokens(text[1]))>>, Tail(text))

\* An operator of a level: a keyword, or parametrize(operator, params),
\* the operator followed by "_{" params "}" with the params in a group.
\* The join operator is the alternative of the cross join, a keyword, and
\* of the short theta join, parametrize(join_op, conditions): the longer
\* match is taken, so that a block after the operator has to be read.
ParseOperator(grammar, operators, text) ==
    IF ~StartsWith(text, operators) THEN ParseException
    ELSE IF text[1] \notin Parametrized
    THEN Parsed(<<Leaf(text[1])>>, Tail(text))
    ELSE IF ~StartsWith(Tail(text), {"_{"})
    THEN IF text[1] = "\\join" THEN Parsed(<<Leaf(text[1])>>, Tail(text))
         ELSE ParseException
    ELSE LET params ==
               IF text[1] \in ConditionParametrized
               THEN ParseLevel(ExtendedConditions,
                               Len(ExtendedConditions.op_list), Tail(Tail(text)))
               ELSE AttributeParams(Tail(Tail(text)))
         IN IF params.ok /\ StartsWith(params.rest, {"}"})
            THEN Parsed(<<Leaf(ThetaParseAction(text[1])), Group(params.items)>>,
                        Tail(params.rest))
            ELSE IF text[1] = "\\join" THEN Parsed(<<Leaf(text[1])>>, Tail(text))
            ELSE ParseException

\* base_expr of the conditions: ConditionGrammar.condition, a comparison,
\* which ExtendedGrammar.condition extends to
\* super().condition | defined_condition; of the expression: a relation,
\* a group of its name.
BaseExpr(grammar, text) ==
    IF grammar.kind = "conditions"
    THEN IF Comparison(text).ok \/ ~grammar.defined THEN Comparison(text)
         ELSE DefinedCondition(text)
    ELSE IF StartsWith(text, Identifiers)
         THEN Parsed(<<Group(<<Leaf(DowncaseTokens(text[1]))>>)>>, Tail(text))
         ELSE ParseException

\* The repetition (opExpr + operand)[1, ...] of a binary level: the operand
\* is the next tighter level (LEFT) or the level itself (RIGHT).
ChainTail(grammar, level, def, items, rest) ==
    LET op == ParseOperator(grammar, def.operators, rest)
        next == ParseLevel(grammar,
                           IF def.assoc = "LEFT" THEN level - 1 ELSE level,
                           op.rest)
    IN IF op.ok /\ next.ok
       THEN ChainTail(grammar, level, def, items \o op.items \o next.items,
                      next.rest)
       ELSE Parsed(items, rest)

\* infix_notation(base_expr, op_list, lpar, rpar): level 0 is the base
\* expression or a parenthesised expression (the parentheses suppressed);
\* level i is the i-th entry of op_list over level i - 1.
ParseLevel(grammar, level, text) ==
    IF level = 0
    THEN LET base == BaseExpr(grammar, text)
             inner == ParseLevel(grammar, Len(grammar.op_list), Tail(text))
         IN IF base.ok THEN base
            ELSE IF StartsWith(text, {"("}) /\ inner.ok
                    /\ StartsWith(inner.rest, {")"})
            THEN Parsed(inner.items, Tail(inner.rest))
            ELSE ParseException
    ELSE LET def == grammar.op_list[level]
             lastExpr == ParseLevel(grammar, level - 1, text)
             op == ParseOperator(grammar, def.operators, text)
             thisExpr == ParseLevel(grammar, level, op.rest)
             chain == ChainTail(grammar, level, def, lastExpr.items, lastExpr.rest)
         IN IF def.arity = 1
            THEN IF op.ok /\ thisExpr.ok
                 THEN Parsed(<<Group(op.items \o thisExpr.items)>>, thisExpr.rest)
                 ELSE lastExpr
            ELSE IF lastExpr.ok /\ Len(chain.items) > Len(lastExpr.items)
                 THEN Parsed(<<Group(chain.items)>>, chain.rest)
                 ELSE lastExpr

\* rule.parseString(instring), parseAll not asked for: what the rule
\* matched at the start of the text, whatever follows it.
ParseString(grammar, text) == ParseLevel(grammar, Len(grammar.op_list), text)

(***************************************************************************)
(* DependencyGrammar.  The pyparsing combinators it is written with:       *)
(* Literal and Suppress match one lexeme, a + b is b matched on what a     *)
(* left, a | b is the first alternative that matches, Group wraps items.   *)
(***************************************************************************)
Literal(lexeme, text) ==
    IF StartsWith(text, {lexeme})
    THEN Parsed(<<Leaf(lexeme)>>, Tail(text)) ELSE ParseException

Suppress(lexeme, text) ==
    IF StartsWith(text, {lexeme}) THEN Parsed(<<>>, Tail(text)) ELSE ParseException

\* a + b, b being the match on a.rest
And(a, b) ==
    IF a.ok /\ b.ok THEN Parsed(a.items \o b.items, b.rest) ELSE ParseException

MatchFirst(a, b) == IF a.ok THEN a ELSE b

GroupOf(a) == IF a.ok THEN Parsed(<<Group(a.items)>>, a.rest) ELSE ParseException

\* ProtoGrammar.relation_name and attribute_name: an identifier.
RelationName(text) ==
    IF StartsWith(text, Identifiers)
    THEN Parsed(<<Leaf(DowncaseTokens(text[1]))>>, Tail(text))
    ELSE ParseException

\* The one element of a singleton.  A match that several later steps read
\* is bound as the element of a singleton, so that it is computed once.
Only(S) == CHOOSE x \in S : TRUE

\* attribute_name + Suppress(delim) + attribute_name
AttributePair(text) ==
    Only({Only({And(And(first, delim), RelationName(delim.rest)) :
                   delim \in {Suppress(",", first.rest)}}) :
             first \in {RelationName(text)}})

\* relation_name + Suppress(delim) + relation_name
RelationPair(text) == AttributePair(text)

\* self.conditions: the conditions rule DependencyGrammar inherits from
\* ExtendedGrammar.
ConditionsExpr(text) ==
    ParseLevel(ExtendedConditions, Len(ExtendedConditions.op_list), text)

\* parameter(params): "_{" params "}", the params in a group; params is
\* the attribute list, an attribute pair or the conditions.
Parameter(params, text) ==
    Only({Only({And(And(start, GroupOf(inner)), Suppress("}", inner.rest)) :
                   inner \in {CASE params = "attribute_list" ->
                                       AttributeParams(start.rest)
                                [] params = "attribute_pair" ->
                                       AttributePair(start.rest)
                                [] params = "conditions" ->
                                       ConditionsExpr(start.rest)}}) :
             start \in {Suppress("_{", text)}})

\* parenthesize(relation_name + Suppress(delim) + relation_name):
\* "(" pair ")", the pair in a group.
Parenthesize(text) ==
    Only({Only({And(And(left, GroupOf(inner)), Suppress(")", inner.rest)) :
                   inner \in {RelationPair(left.rest)}}) :
             left \in {Suppress("(", text)}})

\* DependencyGrammar.pk_dep
PkDep(text) ==
    Only({Only({GroupOf(And(And(pk, params), RelationName(params.rest))) :
                   params \in {Parameter("attribute_list", pk.rest)}}) :
             pk \in {Literal("pk", text)}})

\* DependencyGrammar.mvd_dep
MvdDep(text) ==
    Only({Only({GroupOf(And(And(mvd, params), RelationName(params.rest))) :
                   params \in {Parameter("attribute_pair", mvd.rest)}}) :
             mvd \in {Literal("mvd", text)}})

\* Literal(select_op) + parameter(conditions) + relation_name
SelectedRelation(text) ==
    Only({Only({And(And(select, params), RelationName(params.rest)) :
                   params \in {Parameter("conditions", select.rest)}}) :
             select \in {Literal("\\select", text)}})

\* DependencyGrammar.fd_dep
FdDep(text) ==
    Only({Only({Only({GroupOf(And(And(fd, params), relation)) :
                         relation \in {MatchFirst(SelectedRelation(params.rest),
                                                  RelationName(params.rest))}}) :
                   params \in {Parameter("attribute_pair", fd.rest)}}) :
             fd \in {Literal("fd", text)}})

\* DependencyGrammar.inc_eq_dep
IncEqDep(text) ==
    Only({Only({GroupOf(And(And(inc_eq, params), Parenthesize(params.rest))) :
                   params \in {Parameter("attribute_pair", inc_eq.rest)}}) :
             inc_eq \in {Literal("inc=", text)}})

\* DependencyGrammar.inc_subs_dep
IncSubsDep(text) ==
    Only({Only({GroupOf(And(And(inc_subs, params), Parenthesize(params.rest))) :
                   params \in {Parameter("attribute_pair", inc_subs.rest)}}) :
             inc_subs \in {Literal("inc⊆", text)}})

\* DependencyGrammar.dep
Dep(text) ==
    MatchFirst(PkDep(text),
    MatchFirst(MvdDep(text),
    MatchFirst(FdDep(text),
    MatchFirst(IncEqDep(text), IncSubsDep(text)))))

\* DependencyGrammar.statement
Statement(text) ==
    Only({And(dep, Suppress(";", dep.rest)) : dep \in {Dep(text)}})

\* DependencyGrammar.statements: OneOrMore(statement)
RECURSIVE MoreStatements(_)
MoreStatements(found) ==
    Only({IF next.ok
          THEN MoreStatements(Parsed(found.items \o next.items, next.rest))
          ELSE found :
             next \in {Statement(found.rest)}})

Statements(text) ==
    Only({IF first.ok THEN MoreStatements(first) ELSE ParseException :
             first \in {Statement(text)}})

\* statements.parseString(instring) without parseAll: what the statements
\* rule matched, whatever follows it.
DependencyGrammarParsePrefix(instring) == Statements(instring)

\* DependencyGrammar.parse: statements.parseString(instring, parseAll=True)
DependencyGrammarParse(instring) ==
    Only({IF result.ok /\ Len(result.rest) = 0 THEN result ELSE ParseException :
             result \in {Statements(instring)}})

(***************************************************************************)
(* Texts handed to the grammars: chains of operands joined by operators.   *)
(***************************************************************************)
\* The k-th comparison of a chain, negated or not.
ConditionOperand(k, negated) ==
    (IF negated THEN <<"not">> ELSE <<>>) \o <<Digits[k], "=", Digits[k]>>

\* The k-th relation of a chain, projected or not.
ExpressionOperand(k, projected) ==
    (IF projected THEN <<"\\project", "_{", "a1", "}">> ELSE <<>>)
    \o <<Relations[k]>>

LogicalOperators == {<<"and">>, <<"or">>}

ExpressionOperators ==
    {<<"\\join">>, <<"\\natural_join">>,
     <<"\\theta_join", "_{", "a1", "<", "1", "}">>,
     <<"\\join", "_{", "a1", "<", "1", "}">>,
     <<"\\intersect">>, <<"\\union">>, <<"\\difference">>}

Chain(grammar, operands, operators, paren) ==
    [grammar |-> grammar, operands |-> operands, operators |-> operators,
     paren |-> paren, done |-> FALSE, result |-> ParseException]

NoParse == Chain("none", <<>>, <<>>, FALSE)

\* The chain of n comparisons, and the chain of n relations.
ConditionChain(n, negated, operators, paren) ==
    Chain("conditions", [k \in 1..n |-> ConditionOperand(k, negated[k])],
          operators, paren)

ExpressionChain(n, projected, operators) ==
    Chain("expression", [k \in 1..n |-> ExpressionOperand(k, projected[k])],
          operators, FALSE)

\* operand 1, operator 1, operand 2, ...
RECURSIVE Interleave(_, _, _)
Interleave(operands, operators, k) ==
    IF k = Len(operands) THEN operands[k]
    ELSE operands[k] \o operators[k] \o Interleave(operands, operators, k + 1)

\* The text of a chain; with paren, the operands after the first stand in
\* parentheses.
ChainText(chain) ==
    IF chain.paren
    THEN chain.operands[1] \o chain.operators[1] \o <<"(">>
         \o Interleave(chain.operands, chain.operators, 2) \o <<")">>
    ELSE Interleave(chain.operands, chain.operators, 1)

(***************************************************************************)
(* Input streams handed to DependencyGrammar.parse: statements one after   *)
(* the other, each a dependency statement, an ordinary relational-algebra  *)
(* statement, or a text that is no statement.                              *)
(***************************************************************************)
Piece(kind, filtered, text) == [kind |-> kind, filtered |-> filtered, text |-> text]

AttributePairText == <<"_{", "a1", ",", "a2", "}">>

\* A side of a dependency: a relation, bare or filtered by a selection.
Side(relation, filtered) ==
    (IF filtered THEN <<"\\select", "_{", "a1", "=", "1", "}">> ELSE <<>>)
    \o <<relation>>

DependencyStatements ==
    {Piece("dependency", <<>>, <<"pk", "_{", "a1", "}", "alpha", ";">>),
     Piece("dependency", <<>>, <<"pk", "_{", "a1", ",", "a2", "}", "alpha", ";">>)}
    \cup {Piece("dependency", <<filtered>>,
                <<keyword>> \o AttributePairText \o Side("alpha", filtered)
                \o <<";">>) :
             keyword \in {"mvd", "fd"}, filtered \in BOOLEAN}
    \cup {Piece("dependency", <<left, right>>,
                <<keyword>> \o AttributePairText \o <<"(">> \o Side("alpha", left)
                \o <<",">> \o Side("beta", right) \o <<")", ";">>) :
             keyword \in {"inc=", "inc⊆"}, left \in BOOLEAN, right \in BOOLEAN}

OrdinaryStatements ==
    {Piece("ordinary", <<>>, <<"alpha", ";">>),
     Piece("ordinary", <<>>, <<"gamma", "(", "a1", ",", "a2", ")", ";">>),
     Piece("ordinary", <<>>, <<"gamma", ":=", "alpha", ";">>),
     Piece("ordinary", <<>>, <<"alpha", "\\join", "beta", ";">>),
     Piece("ordinary", <<>>, <<"alpha", "\\natural_join", "beta", ";">>)}

Defects ==
    {Piece("missing_terminator", <<>>, <<"pk", "_{", "a1", "}", "alpha">>),
     Piece("unknown_operator", <<>>, <<"unknown", "_{", "a1", "}", "alpha", ";">>),
     Piece("garbage", <<>>, <<"invalid", "syntax">>)}

StatementTexts == DependencyStatements \cup OrdinaryStatements \cup Defects

Stream(pieces) ==
    [grammar |-> "dependency", pieces |-> pieces, done |-> FALSE,
     result |-> ParseException]

Streams == UNION {{Stream(pieces) : pieces \in [1..n -> StatementTexts]} : n \in 0..MaxStream}

RECURSIVE StreamText(_)
StreamText(pieces) ==
    IF Len(pieces) = 0 THEN <<>>
    ELSE pieces[1].text \o StreamText(Tail(pieces))

(***************************************************************************)
(* Translator dispatch and the batch drivers.                              *)
(***************************************************************************)
NotImplementedError == "NotImplementedError"

\* node.Operator: the 20 operator tags.
Operator ==
    {"relation", "assign", "definition", "project", "rename", "select"}
    \cup JoinFamily \cup SetOperators \cup DependencyOperators

\* BaseTranslator._translate_functions: the operators with a dispatch entry.
TranslateFunctions ==
    {"relation", "select", "project", "rename", "assign", "definition",
     "cross_join", "natural_join", "theta_join", "full_outer_join",
     "left_outer_join", "right_outer_join", "union", "difference",
     "intersect", "primary_key", "multivalued_dependency",
     "functional_dependency", "inclusion_equivalence", "inclusion_subsumption"}

\* A SQL translator that leaves the inclusion dependencies to the base class.
SQLTranslatorMethodsWithoutInclusion ==
    TranslateFunctions \ {"inclusion_equivalence", "inclusion_subsumption"}

\* The methods SQLTranslator (and so SetTranslator) overrides.
SQLTranslatorMethods ==
    {"relation", "select", "project", "rename", "assign", "definition",
     "natural_join", "theta_join", "cross_join", "full_outer_join",
     "left_outer_join", "right_outer_join", "union", "intersect",
     "difference", "primary_key", "multivalued_dependency",
     "functional_dependency", "inclusion_equivalence", "inclusion_subsumption"}

\* The methods QTreeTranslator overrides.
QTreeTranslatorMethods ==
    {"relation", "select", "project", "rename", "assign", "definition",
     "theta_join", "cross_join", "natural_join", "full_outer_join",
     "left_outer_join", "right_outer_join", "union", "difference",
     "intersect", "primary_key", "multivalued_dependency",
     "functional_dependency", "inclusion_equivalence", "inclusion_subsumption"}

\* The nodes of a tree.
RECURSIVE SubNodes(_)
SubNodes(node) ==
    {node} \cup UNION {SubNodes(node.children[i]) : i \in 1..Len(node.children)}

\* BaseTranslator.translate: a node whose operator has no dispatch entry, or
\* whose method is the base class's, raises NotImplementedError.
Implemented(methods, root) ==
    \A node \in SubNodes(root) :
        node.operator \in TranslateFunctions \cap methods

\* The places of a tree where _get_temp_name falls back on id(node): a set
\* operator, and a nameless join side that is not itself a join.
RECURSIVE TempPaths(_, _)
TempPaths(node, path) ==
    (IF node.operator \in SetOperators THEN {path} ELSE {})
    \cup (IF node.operator \in JoinFamily
          THEN {Append(path, i) : i \in {j \in 1..2 :
                    /\ node.children[j].operator \notin JoinFamily
                    /\ ~Truthy(node.children[j].name)}}
          ELSE {})
    \cup UNION {TempPaths(node.children[i], Append(path, i)) :
                    i \in 1..Len(node.children)}

ForestTempPaths(roots) == UNION {TempPaths(roots[k], <<k>>) : k \in 1..Len(roots)}

\* The ids the nodes of a forest can have: live objects have distinct ids.
TempIds(roots) ==
    {ids \in [ForestTempPaths(roots) -> TempNames] :
        \A p, q \in ForestTempPaths(roots) : ids[p] = ids[q] => p = q}

Translated(error, strings) == [error |-> error, strings |-> strings]

\* sql_translator.translate(root_list, use_bag_semantics): the statements
\* whose translation is None are skipped.
RECURSIVE SQLTranslateFrom(_, _, _, _)
SQLTranslateFrom(roots, k, ids, bag) ==
    IF k > Len(roots) THEN <<>>
    ELSE LET translated == SQLTranslate(roots[k], <<k>>, ids, bag) IN
         (IF translated.kind = "none" THEN <<>> ELSE <<ToSql(translated, bag)>>)
         \o SQLTranslateFrom(roots, k + 1, ids, bag)

\* A driver that returns a string for every statement, an empty one for None.
SQLTranslateRootsOnePerStatement(roots, ids, bag) ==
    Translated(OK, [k \in 1..Len(roots) |->
                      ToSql(SQLTranslate(roots[k], <<k>>, ids, bag), bag)])

SQLTranslateRoots(roots, ids, bag) ==
    IF \A k \in 1..Len(roots) : Implemented(SQLTranslatorMethods, roots[k])
    THEN Translated(OK, SQLTranslateFrom(roots, 1, ids, bag))
    ELSE Translated(NotImplementedError, <<>>)

\* qtree_translator.translate(roots): "\Tree" before every root.
QTreeTranslateRoots(roots) ==
    IF \A k \in 1..Len(roots) : Implemented(QTreeTranslatorMethods, roots[k])
    THEN Translated(OK, [k \in 1..Len(roots) |->
                            <<"\\Tree">> \o QTreeTranslate(roots[k])])
    ELSE Translated(NotImplementedError, <<>>)

Targets == {"sql_bag", "sql_set", "qtree"}

TranslateTo(target, roots, ids) ==
    CASE target = "sql_bag" -> SQLTranslateRoots(roots, ids, TRUE)
      [] target = "sql_set" -> SQLTranslateRoots(roots, ids, FALSE)
      [] target = "qtree" -> QTreeTranslateRoots(roots)

(***************************************************************************)
(* The tree builder: one action per node construction, children first.     *)
(***************************************************************************)
RECURSIVE NodeSize(_)
NodeSize(node) ==
    IF Len(node.children) = 0 THEN 1
    ELSE IF Len(node.children) = 1 THEN 1 + NodeSize(node.children[1])
    ELSE 1 + NodeSize(node.children[1]) + NodeSize(node.children[2])

RECURSIVE NodesIn(_)
NodesIn(nodes) ==
    IF Len(nodes) = 0 THEN 0
    ELSE NodeSize(Head(nodes)) + NodesIn(Tail(nodes))

StackSize == NodesIn(stack)

\* Assign, Definition and the dependencies are whole statements: nothing
\* is built over them.
IsRoot(node) == node.operator \in {"assign", "definition"} \cup DependencyOperators

Top == stack[Len(stack)]
Left == stack[Len(stack) - 1]
Right == stack[Len(stack)]

CanBuild ==
    /\ pc = "building"
    /\ Len(forest) < batch
    /\ \A i \in 1..Len(stack) : ~IsRoot(stack[i])

\* The statement under construction may take another node.
InStatement == StackSize < MaxNodes

\* Nothing translated yet.
NoOutput ==
    [target |-> "none", first |-> Translated(OK, <<>>),
     second |-> Translated(OK, <<>>), runs |-> 0]

NoCall ==
    [operator |-> "none", name |-> NoneVal, attributes |-> <<>>,
     conditions |-> <<>>, operands |-> <<>>, error |-> OK]

Call(operator, name, attributes, conditions, operands, error) ==
    [operator |-> operator, name |-> name, attributes |-> attributes,
     conditions |-> conditions, operands |-> operands, error |-> error]

\* The result of a constructor call: the node replaces its operands, or
\* the exception aborts the batch.
Step(res, rest, call) ==
    /\ last' = call
    /\ schema' = res.schema
    /\ IF res.error = OK
       THEN /\ stack' = Append(rest, res.node)
            /\ pc' = pc
       ELSE /\ stack' = stack
            /\ pc' = "failed"
    /\ UNCHANGED <<seed, forest, batch, output, parse>>

Init ==
    /\ seed \in SeedSchemas
    /\ batch \in 1..MaxStatements
    /\ schema = seed
    /\ stack = <<>>
    /\ forest = <<>>
    /\ pc = "building"
    /\ last = NoCall
    /\ output = NoOutput
    /\ parse = NoParse

\* The relation names a batch uses: those of the model, or, over a caller
\* schema that holds a name with an underscore, the names of that schema
\* and the names with an underscore.
BatchNames ==
    IF DOMAIN seed \subseteq RelNames THEN RelNames
    ELSE DOMAIN seed \cup DOMAIN EscapedNames

BuildRelation ==
    /\ CanBuild
    /\ \E name \in BatchNames :
        LET res == RelationNode(name, schema) IN
        Step(res, stack, Call("relation", name, <<>>, <<>>, <<>>, res.error))

BuildDefinition ==
    /\ CanBuild
    /\ stack = <<>>
    /\ \E name \in BatchNames, attributes \in DefinitionAttributeLists :
        LET res == DefinitionNode(name, attributes, schema) IN
        Step(res, stack,
             Call("definition", name, attributes, <<>>, <<>>, res.error))

Rest1 == SubSeq(stack, 1, Len(stack) - 1)
Rest2 == SubSeq(stack, 1, Len(stack) - 2)

BuildSelect ==
    /\ CanBuild
    /\ Len(stack) >= 1
    /\ \E conditions \in Conditions :
        LET res == SelectNode(Top, conditions, schema) IN
        Step(res, Rest1,
             Call("select", NoneVal, <<>>, <<conditions>>, <<Top>>, res.error))

BuildProject ==
    /\ CanBuild
    /\ Len(stack) >= 1
    /\ \E attributes \in ProjectLists :
        LET res == ProjectNode(Top, attributes, schema) IN
        Step(res, Rest1,
             Call("project", NoneVal, attributes, <<>>, <<Top>>, res.error))

BuildRename ==
    /\ CanBuild
    /\ Len(stack) >= 1
    /\ \E name \in BatchNames \cup {NoneVal}, attributes \in RenameAttributeLists :
        /\ Truthy(name) \/ Len(attributes) > 0
        /\ LET res == RenameNode(Top, name, attributes, schema) IN
           Step(res, Rest1,
                Call("rename", name, attributes, <<>>, <<Top>>, res.error))

BuildAssign ==
    /\ CanBuild
    /\ Len(stack) = 1
    /\ \E name \in BatchNames \cup {NoneVal, EmptyStr},
          attributes \in RenameAttributeLists :
        LET res == AssignNode(Top, name, attributes, schema) IN
        Step(res, Rest1,
             Call("assign", name, attributes, <<>>, <<Top>>, res.error))

BuildCrossJoin ==
    /\ CanBuild
    /\ Len(stack) >= 2
    /\ LET res == CrossJoinNode(Left, Right, schema) IN
       Step(res, Rest2,
            Call("cross_join", NoneVal, <<>>, <<>>, <<Left, Right>>, res.error))

BuildNaturalJoin ==
    /\ CanBuild
    /\ Len(stack) >= 2
    /\ LET res == NaturalJoinNode(Left, Right, schema) IN
       Step(res, Rest2,
            Call("natural_join", NoneVal, <<>>, <<>>, <<Left, Right>>, res.error))

BuildConditionJoin ==
    /\ CanBuild
    /\ Len(stack) >= 2
    /\ \E operator \in ConditionJoinOperators, conditions \in Conditions :
        LET res ==
              CASE operator = "theta_join" ->
                      ThetaJoinNode(Left, Right, conditions, schema)
                [] operator = "full_outer_join" ->
                      FullOuterJoinNode(Left, Right, conditions, schema)
                [] operator = "left_outer_join" ->
                      LeftOuterJoinNode(Left, Right, conditions, schema)
                [] operator = "right_outer_join" ->
                      RightOuterJoinNode(Left, Right, conditions, schema)
        IN Step(res, Rest2,
                Call(operator, NoneVal, <<>>, <<conditions>>, <<Left, Right>>, res.error))

BuildSetOperator ==
    /\ CanBuild
    /\ Len(stack) >= 2
    /\ \E operator \in SetOperators :
        LET res ==
              CASE operator = "union" -> UnionNode(Left, Right, schema)
                [] operator = "difference" ->
                      DifferenceNode(Left, Right, schema)
                [] operator = "intersect" ->
                      IntersectNode(Left, Right, schema)
        IN Step(res, Rest2,
                Call(operator, NoneVal, <<>>, <<>>, <<Left, Right>>, res.error))

BuildPrimaryKey ==
    /\ CanBuild
    /\ stack = <<>>
    /\ \E relation_name \in BatchNames, attributes \in PrimaryKeyAttributeLists :
        LET res == PrimaryKeyNode(relation_name, attributes, schema) IN
        Step(res, stack,
             Call("primary_key", relation_name, attributes, <<>>, <<>>, res.error))

\* A side of a dependency: a relation, or a selection over a relation.
IsDependencySide(node) ==
    \/ node.operator = "relation"
    \/ node.operator = "select" /\ node.children[1].operator = "relation"

BuildDependency ==
    /\ CanBuild
    /\ Len(stack) = 1
    /\ IsDependencySide(Top)
    /\ \E operator \in {"multivalued_dependency", "functional_dependency"},
          attributes \in DependencyAttributeLists :
        LET res ==
              IF operator = "multivalued_dependency"
              THEN MultivaluedDependencyNode(Top.name, attributes, Top, schema)
              ELSE FunctionalDependencyNode(Top.name, attributes, Top, schema)
        IN Step(res, Rest1,
                Call(operator, Top.name, attributes, <<>>, <<Top>>, res.error))

BuildInclusion ==
    /\ CanBuild
    /\ Len(stack) = 2
    /\ IsDependencySide(Left)
    /\ IsDependencySide(Right)
    /\ \E operator \in {"inclusion_equivalence", "inclusion_subsumption"},
          attributes \in DependencyAttributeLists :
        LET names == <<Left.name, Right.name>>
            res ==
              IF operator = "inclusion_equivalence"
              THEN InclusionEquivalenceNode(names, attributes, Left, Right, schema)
              ELSE InclusionSubsumptionNode(names, attributes, Left, Right, schema)
        IN Step(res, Rest2,
                Call(operator, NoneVal, attributes, <<>>, <<Left, Right>>, res.error))

\* The batch is built: the forest is handed to a translator.
Translate ==
    /\ pc = "building"
    /\ stack = <<>>
    /\ Len(forest) = batch
    /\ output.runs = 0
    /\ \E target \in Targets, ids \in TempIds(forest) :
        output' = [target |-> target,
                   first |-> TranslateTo(target, forest, ids),
                   second |-> Translated(OK, <<>>), runs |-> 1]
    /\ UNCHANGED <<schema, seed, stack, forest, batch, pc, last, parse>>

\* The same batch compiled a second time against the same caller schema:
\* the same trees, in node objects of their own.
TranslateAgain ==
    /\ output.runs = 1
    /\ \E ids \in TempIds(forest) :
        output' = [output EXCEPT
                      !.second = TranslateTo(output.target, forest, ids),
                      !.runs = 2]
    /\ UNCHANGED <<schema, seed, stack, forest, batch, pc, last, parse>>

\* The statement's root is complete: it joins the forest.
EndStatement ==
    /\ pc = "building"
    /\ Len(stack) = 1
    /\ forest' = Append(forest, stack[1])
    /\ stack' = <<>>
    /\ last' = NoCall
    /\ UNCHANGED <<schema, seed, batch, pc, output, parse>>

\* A batch of statements that reference, define and assign relations: the
\* constructors that look a relation up in the Schema or register one.
Next ==
    \/ InStatement /\ BuildRelation
    \/ InStatement /\ BuildDefinition
    \/ InStatement /\ BuildAssign
    \/ EndStatement

Spec == Init /\ [][Next]_vars

\* One statement built from every node kind.
InitStatement == Init /\ batch = 1

NextStatement ==
    \/ InStatement /\ BuildRelation
    \/ InStatement /\ BuildDefinition
    \/ InStatement /\ BuildSelect
    \/ InStatement /\ BuildProject
    \/ InStatement /\ BuildRename
    \/ InStatement /\ BuildAssign
    \/ InStatement /\ BuildCrossJoin
    \/ InStatement /\ BuildNaturalJoin
    \/ InStatement /\ BuildConditionJoin
    \/ InStatement /\ BuildSetOperator
    \/ EndStatement

SpecStatement == InitStatement /\ [][NextStatement]_vars

\* Whole compilations: a batch built from every node kind, then translated.
\* The trees of a batch share the node budget.
TranslateSeeds ==
    {[alpha |-> <<"a1", "a2">>],
     [alpha |-> <<"a1">>, beta |-> <<"a1">>],
     [alpha |-> <<"a1", "a2">>, beta |-> <<"a1", "b1">>]}

InitTranslate == Init /\ seed \in TranslateSeeds

InBudget == InStatement /\ NodesIn(forest) + StackSize < MaxBatchNodes

NextTranslate ==
    \/ InBudget /\ BuildRelation
    \/ InBudget /\ BuildDefinition
    \/ InBudget /\ BuildSelect
    \/ InBudget /\ BuildProject
    \/ InBudget /\ BuildRename
    \/ InBudget /\ BuildAssign
    \/ InBudget /\ BuildCrossJoin
    \/ InBudget /\ BuildNaturalJoin
    \/ InBudget /\ BuildConditionJoin
    \/ InBudget /\ BuildSetOperator
    \/ InBudget /\ BuildPrimaryKey
    \/ InBudget /\ BuildDependency
    \/ InBudget /\ BuildInclusion
    \/ EndStatement
    \/ Translate
    \/ TranslateAgain

SpecTranslate == InitTranslate /\ [][NextTranslate]_vars

\* The same over a caller schema whose relation name holds an underscore.
UnderscoreSeeds == {[new_alpha |-> <<"a1", "a2">>, beta |-> <<"a1", "b1">>]}

InitUnderscore ==
    /\ seed \in UnderscoreSeeds
    /\ batch \in 1..MaxStatements
    /\ schema = seed
    /\ stack = <<>>
    /\ forest = <<>>
    /\ pc = "building"
    /\ last = NoCall
    /\ output = NoOutput
    /\ parse = NoParse

SpecUnderscore == InitUnderscore /\ [][NextTranslate]_vars

\* One query statement, large enough for a join of joins, built over a
\* caller schema with a relation that has no attributes, then translated.
\* The unary operators stand over relations, a selection also over a
\* selection.
JoinSeeds == {[alpha |-> <<"a1", "a2">>, gamma |-> <<>>]}

InitJoin ==
    /\ seed \in JoinSeeds
    /\ batch = 1
    /\ schema = seed
    /\ stack = <<>>
    /\ forest = <<>>
    /\ pc = "building"
    /\ last = NoCall
    /\ output = NoOutput
    /\ parse = NoParse

InJoin == StackSize < MaxJoinNodes

NextJoin ==
    \/ InJoin /\ BuildRelation
    \/ InJoin /\ BuildSelect
          /\ last'.operands[1].operator \in {"relation", "select"}
    \/ InJoin /\ BuildProject /\ last'.operands[1].operator = "relation"
    \/ InJoin /\ BuildRename /\ last'.operands[1].operator = "relation"
    \/ InJoin /\ BuildCrossJoin
    \/ InJoin /\ BuildNaturalJoin
    \/ InJoin /\ BuildConditionJoin
    \/ InJoin /\ BuildSetOperator
    \/ EndStatement
    \/ Translate

SpecJoin == InitJoin /\ [][NextJoin]_vars

\* The grammars alone: a text is chosen and parsed.
InitParse ==
    /\ seed = [alpha |-> <<"a1">>]
    /\ batch = 1
    /\ schema = seed
    /\ stack = <<>>
    /\ forest = <<>>
    /\ pc = "building"
    /\ last = NoCall
    /\ output = NoOutput
    /\ \E n \in 1..MaxChain :
          \/ \E negated \in [1..n -> BOOLEAN],
                operators \in [1..(n - 1) -> LogicalOperators],
                paren \in {p \in BOOLEAN : p => n >= 3} :
                parse = ConditionChain(n, negated, operators, paren)
          \/ \E projected \in [1..n -> BOOLEAN],
                operators \in [1..(n - 1) -> ExpressionOperators] :
                parse = ExpressionChain(n, projected, operators)

ParseConditions ==
    /\ parse.grammar = "conditions"
    /\ ~parse.done
    /\ parse' = [parse EXCEPT
                    !.done = TRUE,
                    !.result = ParseString(ConditionGrammar, ChainText(parse))]
    /\ UNCHANGED <<schema, seed, stack, forest, batch, pc, last, output>>

ParseExpression ==
    /\ parse.grammar = "expression"
    /\ ~parse.done
    /\ parse' = [parse EXCEPT
                    !.done = TRUE,
                    !.result = ParseString(ExtendedGrammar, ChainText(parse))]
    /\ UNCHANGED <<schema, seed, stack, forest, batch, pc, last, output>>

NextParse ==
    \/ ParseConditions
    \/ ParseExpression

SpecParse == InitParse /\ [][NextParse]_vars

\* DependencyGrammar alone: an input stream is chosen and parsed.
InitDependency ==
    /\ seed = [alpha |-> <<"a1">>]
    /\ batch = 1
    /\ schema = seed
    /\ stack = <<>>
    /\ forest = <<>>
    /\ pc = "building"
    /\ last = NoCall
    /\ output = NoOutput
    /\ parse \in Streams

ParseStatements ==
    /\ parse.grammar = "dependency"
    /\ ~parse.done
    /\ parse' = [parse EXCEPT
                    !.done = TRUE,
                    !.result = DependencyGrammarParse(StreamText(parse.pieces))]
    /\ UNCHANGED <<schema, seed, stack, forest, batch, pc, last, output>>

NextDependency == ParseStatements

SpecDependency == InitDependency /\ [][NextDependency]_vars

\* Condition trees built bottom-up from identities, the two unary and the
\* eight binary operators, and rendered by the translators and by the
\* nodes' own methods.
ConditionIdents == {QRef("alpha", "a1"), <<"'x y'">>}

UnaryConditionalOperators == {"NOT", "DEFINED"}

BinaryConditionalOperators ==
    {"AND", "OR", "EQUAL", "NOT_EQUAL", "LESS_THAN", "LESS_THAN_EQUAL",
     "GREATER_THAN", "GREATER_THAN_EQUAL"}

RECURSIVE ConditionSize(_)
ConditionSize(c) ==
    IF Len(c.children) = 0 THEN 1
    ELSE IF Len(c.children) = 1 THEN 1 + ConditionSize(c.children[1])
    ELSE 1 + ConditionSize(c.children[1]) + ConditionSize(c.children[2])

RECURSIVE ConditionsSize(_)
ConditionsSize(conditions) ==
    IF conditions = <<>> THEN 0
    ELSE ConditionSize(Head(conditions)) + ConditionsSize(Tail(conditions))

InitCondition ==
    /\ seed = <<>>
    /\ schema = seed
    /\ batch = 1
    /\ stack = <<>>
    /\ forest = <<>>
    /\ pc = "building"
    /\ last = NoCall
    /\ output = NoOutput
    /\ parse = NoParse

InCondition == output.runs = 0 /\ ConditionsSize(stack) < MaxConditionNodes

BuildIdentityCondition ==
    /\ InCondition
    /\ \E ident \in ConditionIdents :
           stack' = Append(stack, IdentityConditionNode(ident))
    /\ UNCHANGED <<schema, seed, forest, batch, pc, last, output, parse>>

BuildUnaryCondition ==
    /\ InCondition
    /\ Len(stack) >= 1
    /\ \E op \in UnaryConditionalOperators :
           stack' = Append(SubSeq(stack, 1, Len(stack) - 1),
                           UnaryConditionNode(op, stack[Len(stack)]))
    /\ UNCHANGED <<schema, seed, forest, batch, pc, last, output, parse>>

BuildBinaryCondition ==
    /\ InCondition
    /\ Len(stack) >= 2
    /\ \E op \in BinaryConditionalOperators :
           stack' = Append(SubSeq(stack, 1, Len(stack) - 2),
                           BinaryConditionNode(op, stack[Len(stack) - 1],
                                               stack[Len(stack)]))
    /\ UNCHANGED <<schema, seed, forest, batch, pc, last, output, parse>>

\* The finished tree is rendered four ways: by the two translators (first)
\* and by its own to_sql and to_latex (second).
RenderCondition ==
    /\ output.runs = 0
    /\ Len(stack) = 1
    /\ output' = [target |-> "condition",
                  first |-> Translated(OK, <<SQLTranslateCondition(stack[1]),
                                             QTreeTranslateCondition(stack[1])>>),
                  second |-> Translated(OK, <<ConditionToSql(stack[1]),
                                              ConditionToLatex(stack[1])>>),
                  runs |-> 1]
    /\ UNCHANGED <<schema, seed, stack, forest, batch, pc, last, parse>>

NextCondition ==
    \/ BuildIdentityCondition
    \/ BuildUnaryCondition
    \/ BuildBinaryCondition
    \/ RenderCondition

SpecCondition == InitCondition /\ [][NextCondition]_vars

(***************************************************************************)
(* Properties.                                                             *)
(***************************************************************************)
Registering == {"assign", "definition"}

\* The names introduced by an Assign or a Definition in an earlier statement.
IntroducedEarlier ==
    {forest[j].name : j \in {k \in 1..Len(forest) : forest[k].operator \in Registering}}

\* C1: in a batch processed in textual order, a Relation reference to a
\* name builds successfully if and only if the name is in the
\* caller-supplied schema or was introduced by an Assign or a Definition of
\* an earlier statement; otherwise it fails.
C1_ReferenceNeedsEarlierIntroduction ==
    last.operator = "relation" =>
        (last.error = OK <=>
            last.name \in DOMAIN seed \cup IntroducedEarlier)

\* A reference succeeded to a name the caller did not supply.
C1_Witness ==
    /\ last.operator = "relation"
    /\ last.error = OK
    /\ last.name \notin DOMAIN seed
    /\ Len(forest) >= 1

\* C2: after a successful registering statement the Schema maps the new
\* name to the right attribute sequence: the listed attributes for a
\* Definition; for an Assign the child's attribute names in order when no
\* list is given, and the explicit names when a full list is given.
C2_RegisteredAttributes ==
    (last.operator \in Registering /\ last.error = OK) =>
        /\ last.name \in DOMAIN schema
        /\ schema[last.name] =
              IF last.operator = "definition" \/ Len(last.attributes) > 0
              THEN last.attributes
              ELSE [i \in 1..Len(last.operands[1].attributes) |->
                       last.operands[1].attributes[i].name]

\* An Assign with a full explicit list registered over a child whose own
\* attribute names are different.
C2_Witness ==
    /\ last.operator = "assign"
    /\ last.error = OK
    /\ Len(last.attributes) = 2
    /\ last.operands[1].attributes[1].name /= last.attributes[1]
    /\ schema[last.name] = last.attributes

\* C3: a Definition of a name that is already present raises
\* RelationReferenceError (from Schema.add) and leaves every Schema entry,
\* the existing attributes of that name included, unchanged.
C3_DuplicateDefinitionRaises ==
    [][(last'.operator = "definition" /\ last'.name \in DOMAIN schema) =>
          (last'.error = RelationReferenceError /\ schema' = schema)]_vars

\* A Definition of a present name, with attributes other than the present
\* ones, was refused.
C3_Witness ==
    /\ last.operator = "definition"
    /\ last.error = RelationReferenceError
    /\ schema[last.name] /= last.attributes

\* C4: the Schema is append-only: a name that is present stays present
\* with the same attribute sequence for the rest of the batch, and a
\* successful Definition or Assign adds exactly one new entry.
C4_SchemaAppendOnly ==
    [][/\ \A n \in DOMAIN schema : n \in DOMAIN schema' /\ schema'[n] = schema[n]
       /\ IF last'.operator \in Registering /\ last'.error = OK
          THEN /\ last'.name \notin DOMAIN schema
               /\ DOMAIN schema' = DOMAIN schema \cup {last'.name}
          ELSE DOMAIN schema' = DOMAIN schema]_vars

\* Two statements have each added an entry to a non-empty caller schema.
C4_Witness ==
    /\ Len(forest) = 2
    /\ DOMAIN seed /= {}
    /\ Cardinality(DOMAIN schema) = Cardinality(DOMAIN seed) + 2

\* C5: Assign construction raises InputError when the name is empty and
\* when an explicit attribute list has another length than the child's
\* attribute list, and RelationReferenceError when the (otherwise valid)
\* name is already present; in each case the Schema is left unchanged.
C5_AssignRejectsAndKeepsSchema ==
    [][last'.operator = "assign" =>
          LET child == last'.operands[1]
              mismatch == /\ Len(last'.attributes) > 0
                          /\ Len(last'.attributes) /= Len(child.attributes)
          IN /\ ~Truthy(last'.name) => last'.error = InputError
             /\ mismatch => last'.error = InputError
             /\ (Truthy(last'.name) /\ ~mismatch /\ last'.name \in DOMAIN schema)
                    => last'.error = RelationReferenceError
             /\ last'.error /= OK => schema' = schema]_vars

\* An Assign with a free, non-empty name was refused for its list length.
C5_Witness ==
    /\ last.operator = "assign"
    /\ last.error = InputError
    /\ Truthy(last.name)
    /\ last.name \notin DOMAIN schema
    /\ Len(last.attributes) /= Len(last.operands[1].attributes)

\* C6: Rename construction raises RelationReferenceError whenever the new
\* relation name is already a Schema entry, and a Rename never adds its
\* name to the Schema, so an Assign can still introduce it afterwards.
C6_RenameChecksAndKeepsSchema ==
    [][last'.operator = "rename" =>
          /\ last'.name \in DOMAIN schema => last'.error = RelationReferenceError
          /\ schema' = schema
          /\ last'.error = OK => last'.name \notin DOMAIN schema']_vars

\* An Assign registered the very name its child was renamed to.
C6_Witness ==
    /\ last.operator = "assign"
    /\ last.error = OK
    /\ last.operands[1].operator = "rename"
    /\ last.operands[1].name = last.name
    /\ last.name \in DOMAIN schema

JoinOperators == {"cross_join", "natural_join"} \cup ConditionJoinOperators

SameNonEmptyName(left, right) ==
    /\ left.name \notin {NoneVal, EmptyStr}
    /\ right.name \notin {NoneVal, EmptyStr}
    /\ left.name = right.name

\* C7: constructing any of the six join kinds over two children that carry
\* the same non-empty relation name raises RelationReferenceError, and no
\* join node is produced.
C7_AmbiguousJoinRaises ==
    (/\ last.operator \in JoinOperators
     /\ SameNonEmptyName(last.operands[1], last.operands[2])) =>
        /\ last.error = RelationReferenceError
        /\ pc = "failed"
        /\ Len(stack) >= 2
        /\ stack[Len(stack) - 1] = last.operands[1]
        /\ stack[Len(stack)] = last.operands[2]

\* An outer join of a relation with itself was refused.
C7_Witness ==
    /\ last.operator = "left_outer_join"
    /\ last.operands[1].operator = "relation"
    /\ last.operands[1] = last.operands[2]
    /\ last.error = RelationReferenceError

NameSet(node) == {node.attributes[i].name : i \in 1..Len(node.attributes)}

\* C8: for two relations that share exactly one attribute name, the natural
\* join's attribute list has |left| + |right| - 1 entries: all left
\* attributes in order, then the right attributes whose name is not a left
\* name; the shared attribute appears once, qualified by the left relation.
C8_NaturalJoinDedup ==
    (/\ last.operator = "natural_join"
     /\ last.operands[1].operator = "relation"
     /\ last.operands[2].operator = "relation"
     /\ last.operands[1].name /= last.operands[2].name
     /\ Cardinality(NameSet(last.operands[1]) \cap NameSet(last.operands[2])) = 1) =>
        LET left == last.operands[1]
            right == last.operands[2]
            shared == CHOOSE n \in NameSet(left) \cap NameSet(right) : TRUE
            out == stack[Len(stack)].attributes
        IN /\ last.error = OK
           /\ stack[Len(stack)].operator = "natural_join"
           /\ Len(out) = Len(left.attributes) + Len(right.attributes) - 1
           /\ SubSeq(out, 1, Len(left.attributes)) = left.attributes
           /\ SubSeq(out, Len(left.attributes) + 1, Len(out)) =
                 SelectSeq(right.attributes, LAMBDA a : a.name \notin NameSet(left))
           /\ Cardinality({i \in 1..Len(out) : out[i].name = shared}) = 1
           /\ \A i \in 1..Len(out) :
                 out[i].name = shared => out[i].prefix = left.name

\* A natural join of two relations with one shared name kept a right
\* attribute and dropped one.
C8_Witness ==
    /\ last.operator = "natural_join"
    /\ last.error = OK
    /\ last.operands[1].operator = "relation"
    /\ last.operands[2].operator = "relation"
    /\ Cardinality(NameSet(last.operands[1]) \cap NameSet(last.operands[2])) = 1
    /\ Len(last.operands[2].attributes) = 2
    /\ Len(stack[Len(stack)].attributes) = Len(last.operands[1].attributes) + 1

\* C9: Union, Difference and Intersect construction raises InputError for
\* every pair of children whose attribute-name sequences differ (in
\* content, order or length); when they are identical the node's attribute
\* list is that sequence with no relation qualifier and its name is None.
C9_SetOperatorSchemaGuard ==
    last.operator \in SetOperators =>
        LET left == last.operands[1]
            right == last.operands[2]
            same == /\ Len(left.attributes) = Len(right.attributes)
                    /\ \A i \in 1..Len(left.attributes) :
                          left.attributes[i].name = right.attributes[i].name
        IN IF same
           THEN /\ last.error = OK
                /\ stack[Len(stack)].operator = last.operator
                /\ stack[Len(stack)].name = NoneVal
                /\ stack[Len(stack)].children = <<left, right>>
                /\ stack[Len(stack)].attributes =
                      [i \in 1..Len(left.attributes) |->
                          [prefix |-> NoneVal, name |-> left.attributes[i].name]]
           ELSE /\ last.error = InputError
                /\ pc = "failed"

\* A set operator was refused for two children with the same attribute
\* names in another order.
C9_Witness ==
    /\ last.operator \in SetOperators
    /\ last.error = InputError
    /\ NameSet(last.operands[1]) = NameSet(last.operands[2])
    /\ Len(last.operands[1].attributes) = Len(last.operands[2].attributes)

\* The texts of the identity leaves of a condition.
RECURSIVE ConditionLeaves(_)
ConditionLeaves(c) ==
    IF c.kind = "identity" THEN {c.ident}
    ELSE UNION {ConditionLeaves(c.children[i]) : i \in 1..Len(c.children)}

IsLiteral(ident) ==
    Len(ident) = 1 /\ ident[1] \in NumberLexemes \cup StringLexemes

\* The entries of a list that a reference text names.
NamedEntries(attributes, ident) ==
    {i \in 1..Len(attributes) :
        IF Len(ident) = 1
        THEN attributes[i].name = ident[1]
        ELSE /\ Len(ident) = 3
             /\ attributes[i].prefix = ident[1]
             /\ attributes[i].name = ident[3]}

ConditionOperators == {"select"} \cup ConditionJoinOperators

\* The attribute list a condition is validated against: the child's list
\* for Select, the merged left and right lists for a join.
ValidatedList(call) ==
    IF call.operator = "select" THEN call.operands[1].attributes
    ELSE call.operands[1].attributes \o call.operands[2].attributes

\* C10: constructing a Select, Theta-join or outer-join node (for a join:
\* over children that pass the ambiguity guard, so that the node has an
\* attribute list) raises AttributeReferenceError if and only if some
\* attribute reference of its condition does not resolve to exactly one
\* entry of the node's attribute list: an unknown name, a wrong relation
\* prefix, or an unqualified name present on both sides; numeric and
\* string literals never cause an error.
C10_ConditionReferencesResolve ==
    (/\ last.operator \in ConditionOperators
     /\ last.operator /= "select" =>
            ~SameNonEmptyName(last.operands[1], last.operands[2])) =>
        (last.error = AttributeReferenceError <=>
            \E ident \in ConditionLeaves(last.conditions[1]) :
                /\ ~IsLiteral(ident)
                /\ Cardinality(NamedEntries(ValidatedList(last), ident)) /= 1)

\* A join was refused for an unqualified name that both sides carry, its
\* condition holding a literal as well.
C10_Witness ==
    /\ last.operator \in ConditionJoinOperators
    /\ last.error = AttributeReferenceError
    /\ \E ident \in ConditionLeaves(last.conditions[1]) :
          /\ Len(ident) = 1
          /\ Cardinality(NamedEntries(ValidatedList(last), ident)) = 2
    /\ \E ident \in ConditionLeaves(last.conditions[1]) : IsLiteral(ident)

\* C11: in a batch, an Assign or a Definition that introduces a name not in
\* the Schema at that point never raises RelationReferenceError.
C11_FreshIntroductionAccepted ==
    [][(last'.operator \in Registering /\ last'.name \notin DOMAIN schema) =>
          last'.error /= RelationReferenceError]_vars

\* The second statement of a batch introduced a fresh name after the first
\* had introduced another.
C11_Witness ==
    /\ Len(forest) = 1
    /\ forest[1].operator \in Registering
    /\ last.operator \in Registering
    /\ last.error = OK
    /\ last.name /= forest[1].name
    /\ last.name \notin DOMAIN seed

(***************************************************************************)
(* Translation of a batch.                                                 *)
(***************************************************************************)
SqlTargets == {"sql_bag", "sql_set"}

Compiled(targets) ==
    /\ output.runs >= 1
    /\ output.target \in targets
    /\ output.first.error = OK

CountOf(roots, operators) ==
    Cardinality({k \in 1..Len(roots) : roots[k].operator \in operators})

InclusionAndValueDependencies ==
    {"multivalued_dependency", "functional_dependency",
     "inclusion_equivalence", "inclusion_subsumption"}

WithoutSql == {"definition"} \cup InclusionAndValueDependencies

KeptStatements == SelectSeq(forest, LAMBDA root : root.operator \notin WithoutSql)

\* The keyword a statement's SQL string starts with.
StatementHead(root) ==
    CASE root.operator = "assign" -> "CREATE"
      [] root.operator = "primary_key" -> "ALTER"
      [] OTHER -> "SELECT"

\* C12 as stated: the SQL output has one string per statement except the
\* multivalued-, functional- and inclusion-dependency statements.
C12_OmitsOnlyDependencies ==
    Compiled(SqlTargets) =>
        Len(output.first.strings) =
            Len(forest) - CountOf(forest, InclusionAndValueDependencies)

\* C12 (amended): the SQL output has, in statement order, one string per
\* statement except the definition statements and the multivalued-,
\* functional- and inclusion-dependency statements.
C12_OmitsDefinitionsAndDependencies ==
    Compiled(SqlTargets) =>
        /\ Len(output.first.strings) = Len(forest) - CountOf(forest, WithoutSql)
        /\ Len(output.first.strings) = Len(KeptStatements)
        /\ \A j \in 1..Len(output.first.strings) :
              output.first.strings[j][1] = StatementHead(KeptStatements[j])

C12_Witness ==
    /\ Compiled(SqlTargets)
    /\ Len(forest) = 3
    /\ CountOf(forest, {"definition"}) = 1
    /\ CountOf(forest, {"primary_key"}) = 1
    /\ Len(output.first.strings) = 2
    /\ output.first.strings[1][1] /= output.first.strings[2][1]

\* Square brackets of an output lexeme: the qtree node opener "[.$" and the
\* "[" of an inclusion dependency open one; "]" closes one, and so does the
\* bracket inside the string literal ']'.
Opening(lexeme) == IF lexeme \in {"[.$", "["} THEN 1 ELSE 0
Closing(lexeme) == IF lexeme \in {"]", "']'"} THEN 1 ELSE 0

\* Open brackets after the first n lexemes of a string.
RECURSIVE Depth(_, _)
Depth(string, n) ==
    IF n = 0 THEN 0
    ELSE Depth(string, n - 1) + Opening(string[n]) - Closing(string[n])

Balanced(string) ==
    /\ Depth(string, Len(string)) = 0
    /\ \A n \in 1..Len(string) : Depth(string, n) >= 0

\* C13: the QTree translation of a batch of n built statements is n strings,
\* each starting with \Tree and balanced in square brackets.
C13_QTreeOnePerStatementBalanced ==
    Compiled({"qtree"}) =>
        /\ Len(output.first.strings) = Len(forest)
        /\ \A k \in 1..Len(forest) :
              /\ output.first.strings[k][1] = "\\Tree"
              /\ Balanced(output.first.strings[k])

HasSetOperator(root) == \E node \in SubNodes(root) : node.operator \in SetOperators

SetOperatorKeywords == {"UNION", "EXCEPT", "INTERSECT"}

Occurs(keyword, string) == \E n \in 1..Len(string) : string[n] = keyword

\* Every occurrence of one of the keywords is directly followed by next.
FollowedBy(keywords, next, string) ==
    \A n \in 1..Len(string) :
        string[n] \in keywords => n < Len(string) /\ string[n + 1] = next

\* C14: for a tree containing a Union, Difference or Intersect, the SQL under
\* set semantics has no ALL and SELECT DISTINCT for every SELECT; the SQL
\* under bag semantics has ALL after every set operator and no DISTINCT.
C14_SetAndBagShape ==
    \A j \in 1..Len(KeptStatements) :
        HasSetOperator(KeptStatements[j]) =>
            /\ Compiled({"sql_set"}) =>
                  /\ ~Occurs("ALL", output.first.strings[j])
                  /\ FollowedBy({"SELECT"}, "DISTINCT", output.first.strings[j])
            /\ Compiled({"sql_bag"}) =>
                  /\ FollowedBy(SetOperatorKeywords, "ALL", output.first.strings[j])
                  /\ ~Occurs("DISTINCT", output.first.strings[j])

C14_Witness ==
    /\ Compiled({"sql_set"})
    /\ Len(forest) = 1
    /\ forest[1].operator = "difference"
    /\ forest[1].children[1].name /= forest[1].children[2].name
    /\ Occurs("EXCEPT", output.first.strings[1])
    /\ Occurs("DISTINCT", output.first.strings[1])

\* C15: compiling the same batch twice against the same caller schema yields
\* identical output lists, for the QTree target and for the SQL targets, and
\* leaves the caller's schema mapping as it was.
C15_CompilationDeterministic ==
    [][output'.runs = 2 =>
          /\ output'.second = output'.first
          /\ seed' = seed]_vars

\* C16: every one of the 20 operator tags has a dispatch entry and an
\* overriding method in the SQL translators and in the QTree translator, so
\* no translation of a built batch raises NotImplementedError.
C16_DispatchExhaustive ==
    /\ Cardinality(Operator) = 20
    /\ Operator \subseteq TranslateFunctions
    /\ Operator \subseteq SQLTranslatorMethods
    /\ Operator \subseteq QTreeTranslatorMethods
    /\ \A k \in 1..Len(forest) :
          \A node \in SubNodes(forest[k]) : node.operator \in Operator
    /\ output.runs >= 1 => output.first.error /= NotImplementedError
    /\ output.runs = 2 => output.second.error /= NotImplementedError

C16_Witness ==
    /\ output.runs = 2
    /\ output.target = "sql_set"
    /\ output.second.error = OK
    /\ Len(forest) = 1
    /\ forest[1].operator = "inclusion_subsumption"
    /\ forest[1].children[1].name /= forest[1].children[2].name

(***************************************************************************)
(* Node equality.                                                          *)
(***************************************************************************)
\* The nodes of the statements built so far and of the one under construction.
BuiltNodes ==
    UNION ({SubNodes(forest[k]) : k \in 1..Len(forest)}
           \cup {SubNodes(stack[i]) : i \in 1..Len(stack)})

\* C17: for any two nodes a and b, a == b is True exactly when they have the
\* same kind, operator, name, attributes, conditions and recursively equal
\* children, and False otherwise (it never raises); a != b is its negation.
C17_EqualityStructuralTotal ==
    \A a, b \in BuiltNodes :
        /\ NodeEq(a, b) = Bool(a = b)
        /\ NodeNe(a, b) = Bool(a /= b)

(***************************************************************************)
(* Grammars.                                                               *)
(***************************************************************************)
ParsedBy(grammar) == parse.done /\ parse.grammar = grammar

\* The item a relation operand stands for: the relation, or the projection
\* applied to it.
RelationItem(operand) ==
    IF Len(operand) = 1 THEN Group(<<Leaf(operand[1])>>)
    ELSE Group(<<Leaf(operand[1]), Group(<<Leaf(operand[3])>>),
                 Group(<<Leaf(operand[5])>>)>>)

\* A comparison, and the item a condition operand stands for: the
\* comparison, or its negation.
ComparisonItem(text) == Group(<<Leaf(text[1]), Leaf(text[2]), Leaf(text[3])>>)

ConditionItem(operand) ==
    IF operand[1] = "not"
    THEN Group(<<Leaf("not"), ComparisonItem(Tail(operand))>>)
    ELSE ComparisonItem(operand)

\* The items an operator stands for: the keyword and, for a theta join
\* in its long or its short form, the theta join operator and the group of
\* its condition.
OperatorItems(operator) ==
    IF Len(operator) = 1 THEN <<Leaf(operator[1])>>
    ELSE <<Leaf("\\theta_join"),
           Group(<<ComparisonItem(SubSeq(operator, 3, 5))>>)>>

\* How loosely an operator binds: the join family tightest, then
\* intersect, then union and difference.
Looseness(operator) ==
    CASE operator[1] \in {"\\join", "\\natural_join", "\\theta_join",
                          "\\full_outer_join", "\\left_outer_join",
                          "\\right_outer_join"} -> 1
      [] operator[1] = "\\intersect" -> 2
      [] operator[1] \in {"\\union", "\\difference"} -> 3

\* The nesting of operands lo..hi by precedence: the chain is cut at its
\* operators of the given looseness, each piece nested by the tighter
\* operators, and the pieces and the cutting operators form one group.
RECURSIVE NestedByPrecedence(_, _, _, _)
RECURSIVE Pieces(_, _, _, _)
Pieces(chain, lo, hi, looseness) ==
    LET cuts == {k \in lo..(hi - 1) : Looseness(chain.operators[k]) = looseness}
        cut == CHOOSE k \in cuts : \A j \in cuts : k <= j
    IN IF cuts = {} THEN <<NestedByPrecedence(chain, lo, hi, looseness - 1)>>
       ELSE <<NestedByPrecedence(chain, lo, cut, looseness - 1)>>
            \o OperatorItems(chain.operators[cut])
            \o Pieces(chain, cut + 1, hi, looseness)

NestedByPrecedence(chain, lo, hi, looseness) ==
    IF lo = hi THEN RelationItem(chain.operands[lo])
    ELSE IF \A k \in lo..(hi - 1) : Looseness(chain.operators[k]) /= looseness
    THEN NestedByPrecedence(chain, lo, hi, looseness - 1)
    ELSE Group(Pieces(chain, lo, hi, looseness))

\* C18: the extended grammar nests a chain by precedence: unary operators
\* bind tighter than the join family, which binds tighter than intersect,
\* which binds tighter than union and difference, on either side of the
\* looser operator; operators of one level form one flat left-to-right chain.
C18_NestedByPrecedence ==
    ParsedBy("expression") =>
        parse.result =
            Parsed(<<NestedByPrecedence(parse, 1, Len(parse.operands), 3)>>, <<>>)

C18_Witness ==
    /\ ParsedBy("expression")
    /\ Len(parse.operands) = 4
    /\ parse.operators = <<<<"\\union">>, <<"\\intersect">>, <<"\\join">>>>
    /\ Len(parse.operands[3]) > 1
    /\ Len(parse.result.items[1].items) = 3
    /\ Len(parse.result.items[1].items[3].items) = 3
    /\ Len(parse.result.items[1].items[3].items[3].items) = 3

\* A condition as a term: an operator, a token, applied to terms.
Term(op, args) == [op |-> op, args |-> args]

\* The reading of a parse result: a token is itself, a group of not and
\* one item is the negation of the item, and any other group is read left
\* to right, each operator applied to all that precedes it.
RECURSIVE ReadItem(_)
RECURSIVE ReadChain(_, _)
ReadChain(items, n) ==
    IF n = 1 THEN ReadItem(items[1])
    ELSE Term(items[n - 1].tok, <<ReadChain(items, n - 2), ReadItem(items[n])>>)

ReadItem(item) ==
    IF Len(item.items) = 0 THEN Term(item.tok, <<>>)
    ELSE IF Len(item.items) = 2 /\ item.items[1].tok = <<"not">>
    THEN Term(<<"not">>, <<ReadItem(item.items[2])>>)
    ELSE ReadChain(item.items, Len(item.items))

\* The left-associative grouping of the operands lo..hi of a chain:
\* ((c1 op1 c2) op2 c3) ...
RECURSIVE LeftGrouping(_, _, _)
LeftGrouping(chain, lo, hi) ==
    IF lo = hi THEN ReadItem(ConditionItem(chain.operands[lo]))
    ELSE Term(chain.operators[hi - 1],
              <<LeftGrouping(chain, lo, hi - 1),
                ReadItem(ConditionItem(chain.operands[hi]))>>)

\* C19: and and or have equal precedence, below not and the comparisons,
\* and are left-associative: c1 and c2 or c3 groups as (c1 and c2) or c3; a
\* parenthesised tail is one operand.
C19_LogicalOperatorsLeftAssociative ==
    ParsedBy("conditions") =>
        /\ parse.result.ok
        /\ Len(parse.result.items) = 1
        /\ ReadItem(parse.result.items[1]) =
              IF parse.paren
              THEN Term(parse.operators[1],
                        <<LeftGrouping(parse, 1, 1),
                          LeftGrouping(parse, 2, Len(parse.operands))>>)
              ELSE LeftGrouping(parse, 1, Len(parse.operands))

C19_Witness ==
    /\ ParsedBy("conditions")
    /\ ~parse.paren
    /\ Len(parse.operands) = 3
    /\ parse.operators = <<<<"and">>, <<"or">>>>
    /\ parse.operands[2][1] = "not"
    /\ ReadItem(parse.result.items[1]).op = <<"or">>
    /\ ReadItem(parse.result.items[1]).args[1].op = <<"and">>

\* Strictly binary groups nested to the right: [c1, op1, [c2, op2, c3]].
RECURSIVE RightNested(_, _)
RightNested(chain, k) ==
    IF k = Len(chain.operands) THEN ConditionItem(chain.operands[k])
    ELSE Group(<<ConditionItem(chain.operands[k]), Leaf(chain.operators[k][1]),
                 RightNested(chain, k + 1)>>)

\* C20: ConditionGrammar.conditions parses a chain of three or more
\* comparisons joined by any mix of and / or into strictly binary groups
\* nested to the right.
C20_ChainsNestedRight ==
    (/\ ParsedBy("conditions")
     /\ ~parse.paren
     /\ Len(parse.operands) >= 3
     /\ \A k \in 1..Len(parse.operands) : parse.operands[k][1] /= "not")
    => parse.result = Parsed(<<RightNested(parse, 1)>>, <<>>)

\* The statements of the parsed stream and their kinds.
PieceKinds == {parse.pieces[k].kind : k \in 1..Len(parse.pieces)}

Bare(piece) == \A i \in 1..Len(piece.filtered) : ~piece.filtered[i]

\* C21: DependencyGrammar.parse accepts every input stream that mixes
\* dependency statements (here with bare relations) with ordinary
\* relational-algebra statements: relation references, definitions,
\* assignments and joins.
C21_OrdinaryStatementsAccepted ==
    (/\ ParsedBy("dependency")
     /\ PieceKinds \subseteq {"dependency", "ordinary"}
     /\ "ordinary" \in PieceKinds
     /\ \A k \in 1..Len(parse.pieces) : Bare(parse.pieces[k]))
    => /\ parse.result.ok
       /\ Len(parse.result.items) = Len(parse.pieces)

\* The parse result of an mvd or fd statement: keyword, attribute pair,
\* then the relation, after "\select" and its conditions when filtered.
ValueDependencyItem(piece) ==
    Group(<<Leaf(piece.text[1]), Group(<<Leaf("a1"), Leaf("a2")>>)>>
          \o (IF piece.filtered[1]
              THEN <<Leaf("\\select"),
                     Group(<<ComparisonItem(<<"a1", "=", "1">>)>>)>>
              ELSE <<>>)
          \o <<Leaf("alpha")>>)

\* C22: a stream of dependency statements parses whether the relation of
\* an mvd or fd statement, and each side of an inclusion statement, is bare
\* or filtered by a selection; an mvd or fd statement parses as keyword,
\* attribute pair, "\select", conditions, relation.
C22_DependenciesTakeFilteredRelations ==
    (/\ ParsedBy("dependency")
     /\ PieceKinds = {"dependency"})
    => /\ parse.result.ok
       /\ Len(parse.result.items) = Len(parse.pieces)
       /\ \A k \in 1..Len(parse.pieces) :
             parse.pieces[k].text[1] \in {"mvd", "fd"}
             => parse.result.items[k] = ValueDependencyItem(parse.pieces[k])

\* C23: DependencyGrammar.parse returns a result only for a whole input of
\* terminator-ended statements, one item per statement and nothing left
\* over; an input that is empty, lacks a terminator, names no known
\* operator or ends in garbage raises.
C23_ParseAllOrNothing ==
    ParsedBy("dependency")
    => /\ parse.result.ok
          => /\ parse.result.rest = <<>>
             /\ Len(parse.pieces) >= 1
             /\ Len(parse.result.items) = Len(parse.pieces)
             /\ \A k \in 1..Len(parse.pieces) :
                   parse.pieces[k].text[Len(parse.pieces[k].text)] = ";"
       /\ (Len(parse.pieces) = 0 \/ PieceKinds \cap {"missing_terminator",
               "unknown_operator", "garbage"} /= {})
          => parse.result = ParseException

\* A statement followed by garbage was parsed and rejected as a whole.
C23_Witness ==
    /\ ParsedBy("dependency")
    /\ Len(parse.pieces) = 2
    /\ parse.pieces[1].kind = "dependency"
    /\ Statement(parse.pieces[1].text).ok
    /\ parse.pieces[2].kind = "garbage"
    /\ parse.result = ParseException

\* The relation name a node displays in its label, if it displays one.
DisplayedNames(node) ==
    CASE node.operator \in {"relation", "rename", "assign", "definition"} ->
            IF Truthy(node.name) THEN {node.name} ELSE {}
      [] node.operator = "primary_key" -> {node.relation_name}
      [] node.operator \in DependencyOperators \ {"primary_key"} ->
            {node.children[k].name : k \in 1..Len(node.children)}
      [] OTHER -> {}

QTreeCompiled == output.runs >= 1 /\ output.target = "qtree" /\ output.first.error = OK

\* C24: in the QTree string of every statement, a relation name displayed
\* by a relation, rename, assign or definition node or by a dependency
\* label appears with each underscore escaped, never as it is written.
C24_RelationNamesEscaped ==
    QTreeCompiled
    => \A k \in 1..Len(forest) :
          \A node \in SubNodes(forest[k]) :
             \A name \in DisplayedNames(node) \cap DOMAIN EscapedNames :
                /\ Occurs(EscapedNames[name], output.first.strings[k])
                /\ ~Occurs(name, output.first.strings[k])

(***************************************************************************)
(* SQL translation of single nodes.                                        *)
(***************************************************************************)
\* Every node of a tree with its place in the tree.
RECURSIVE Places(_, _)
Places(node, path) ==
    {[node |-> node, path |-> path]}
    \cup UNION {Places(node.children[i], Append(path, i)) :
                    i \in 1..Len(node.children)}

ForestPlaces == UNION {Places(forest[k], <<k>>) : k \in 1..Len(forest)}

Bag == output.target = "sql_bag"

EndsWith(string, suffix) ==
    /\ Len(string) >= Len(suffix)
    /\ SubSeq(string, Len(string) - Len(suffix) + 1, Len(string)) = suffix

\* C25: the query of a Select has, as its WHERE, "(child's WHERE) AND (own
\* condition)" when the child's query has a WHERE and the own condition
\* otherwise; its FROM and prefix are the child's; its select-block is the
\* child's, or the Select's attributes when the child's is empty.  The
\* string of a statement that is a Select ends with that WHERE.
C25_SelectMergesWhere ==
    Compiled(SqlTargets) =>
        \A ids \in TempIds(forest), place \in ForestPlaces :
            place.node.operator = "select" =>
                LET node == place.node
                    child == SQLTranslate(node.children[1], Append(place.path, 1),
                                          ids, Bag)
                    own == SQLTranslateCondition(node.conditions[1])
                    result == SQLTranslate(node, place.path, ids, Bag)
                IN /\ result.where_block =
                          IF Len(child.where_block) > 0
                          THEN <<"(">> \o child.where_block
                               \o <<")", "AND", "(">> \o own \o <<")">>
                          ELSE own
                   /\ result.from_block = child.from_block
                   /\ result.prefix = child.prefix
                   /\ result.select_block =
                          IF Len(child.select_block) > 0 THEN child.select_block
                          ELSE AttributeListStr(node.attributes)
                   /\ Len(place.path) = 1 =>
                          EndsWith(output.first.strings[place.path[1]],
                                   <<"WHERE">> \o result.where_block)

\* A selection over a selection was translated: both conditions are kept.
C25_Witness ==
    /\ Compiled(SqlTargets)
    /\ forest[1].operator = "select"
    /\ forest[1].children[1].operator = "select"
    /\ forest[1].children[1].conditions /= forest[1].conditions
    /\ Occurs("AND", output.first.strings[1])

\* The text a join side contributes to the FROM of its join when the sides
\* whose operator is in inlined reuse their FROM-block and every other side
\* is a derived table "( <subquery> ) AS <name>".
SideText(place, i, ids, inlined) ==
    LET side == place.node.children[i]
        path == Append(place.path, i)
        sobject == SQLTranslate(side, path, ids, Bag)
    IN IF side.operator \in inlined THEN sobject.from_block
       ELSE <<"(">> \o ToSql(sobject, Bag)
            \o <<")", "AS", IF Truthy(side.name) THEN side.name ELSE ids[path]>>

\* The FROM of a join built from the texts of its two sides, with the ON
\* condition after it for the joins that carry one.
JoinFrom(place, ids, inlined) ==
    LET sides == SideText(place, 1, ids, inlined)
                 \o SQLOperator(place.node.operator)
                 \o SideText(place, 2, ids, inlined)
    IN IF place.node.operator \in ConditionJoinOperators
       THEN sides \o <<"ON">> \o SQLTranslateCondition(place.node.conditions[1])
       ELSE sides

\* Every translated join has that FROM, and the string of a statement that
\* is a join ends with it.
JoinSidesAre(inlined) ==
    Compiled(SqlTargets) =>
        \A place \in ForestPlaces :
            place.node.operator \in JoinFamily =>
                /\ \A ids \in TempIds(forest) :
                       SQLTranslate(place.node, place.path, ids, Bag).from_block
                           = JoinFrom(place, ids, inlined)
                /\ Len(place.path) = 1 =>
                       \E ids \in TempIds(forest) :
                           EndsWith(output.first.strings[place.path[1]],
                                    JoinFrom(place, ids, inlined))

\* C26 as stated: a join side that is itself a join or a bare relation is
\* inlined by reusing its FROM-block, and every other side is wrapped as
\* "( <subquery> ) AS <name>".
C26_JoinOrRelationSideInlined == JoinSidesAre(JoinFamily \cup {"relation"})

\* C26, amended: only a side that is itself a join is inlined; every other
\* side, a bare relation included, is wrapped as "( <subquery> ) AS <name>".
C26_OnlyJoinSideInlined == JoinSidesAre(JoinFamily)

\* A join of a join with a bare relation was translated: the inner join is
\* inlined and the relation is a derived table.
C26_Witness ==
    /\ Compiled(SqlTargets)
    /\ forest[1].operator \in JoinFamily
    /\ forest[1].children[1].operator \in JoinFamily
    /\ forest[1].children[2].operator = "relation"
    /\ EndsWith(output.first.strings[1], <<")", "AS", forest[1].children[2].name>>)

(***************************************************************************)
(* The string of a query value.                                            *)
(***************************************************************************)
\* The string the pass-through rule gives a query: the SELECT ... FROM
\* clause when the select-block is set, the prefix and the bare FROM-block
\* when it is empty, and the WHERE after either when it is set.
PassThroughString(query, distinct) ==
    LET basic ==
            IF Len(query.select_block) > 0
            THEN query.prefix \o <<"SELECT">> \o distinct \o query.select_block
                 \o <<"FROM">> \o query.from_block
            ELSE query.prefix \o query.from_block
    IN IF Len(query.where_block) > 0
       THEN basic \o <<"WHERE">> \o query.where_block
       ELSE basic

\* The translated statement is the pass-through string of its query.
StatementPassesThrough ==
    \E ids \in TempIds(forest) :
        output.first.strings[1] =
            PassThroughString(SQLTranslate(forest[1], <<1>>, ids, Bag),
                              IF Bag THEN <<>> ELSE <<"DISTINCT">>)

\* C27: to_sql emits SELECT ... FROM only when the select-block is set; with
\* an empty select-block it emits the prefix and the bare relation reference
\* (and the WHERE if set) without the SELECT and FROM keywords, under bag
\* and under set semantics alike.
C27_SelectFromOnlyWithSelectBlock ==
    Compiled(SqlTargets) => StatementPassesThrough

(***************************************************************************)
(* What changes the Schema.                                                *)
(***************************************************************************)
\* C28: only a successful Definition or Assign changes the Schema: every
\* other constructor call, successful or raising, and every run of the SQL
\* or the QTree translator leaves it as it was.
C28_OnlyDefinitionAndAssignChangeSchema ==
    [][schema' /= schema =>
          /\ last' /= last
          /\ last'.operator \in {"definition", "assign"}
          /\ last'.error = OK
          /\ output' = output]_vars

\* A batch that holds a rename under a name that is no Schema entry and a
\* dependency was translated twice, and the Schema is the caller's.
C28_Witness ==
    /\ output.runs = 2
    /\ schema = seed
    /\ \E k \in 1..Len(forest) : forest[k].operator \in DependencyOperators
    /\ \E k \in 1..Len(forest) :
           /\ forest[k].operator = "rename"
           /\ Truthy(forest[k].name)
           /\ forest[k].name \notin DOMAIN schema

(***************************************************************************)
(* The aliases of a join statement.                                        *)
(***************************************************************************)
\* The aliases of the derived tables in the FROM of the join at node, left
\* to right: a side that is a join contributes those of its own FROM, every
\* other side its given or synthetic name.
RECURSIVE JoinAliases(_, _, _)
JoinAliases(node, path, ids) ==
    LET side(i) ==
            IF node.children[i].operator \in JoinFamily
            THEN JoinAliases(node.children[i], Append(path, i), ids)
            ELSE <<GetTempName(node.children[i], Append(path, i), ids)>>
    IN side(1) \o side(2)

\* C29: the aliases that the derived tables bear in the FROM of a translated
\* join statement are pairwise distinct, nested joins included.
C29_JoinAliasesDistinct ==
    Compiled(SqlTargets) =>
        \A k \in 1..Len(forest), ids \in TempIds(forest) :
            forest[k].operator \in JoinFamily =>
                LET aliases == JoinAliases(forest[k], <<k>>, ids)
                IN \A i, j \in 1..Len(aliases) :
                       i /= j => aliases[i] /= aliases[j]

(***************************************************************************)
(* The renderings of a condition tree.                                     *)
(***************************************************************************)
RECURSIVE SubConditions(_)
SubConditions(c) ==
    {c} \cup UNION {SubConditions(c.children[i]) : i \in 1..Len(c.children)}

Rendered == output.target = "condition"

\* C30: for every condition tree, SQLTranslator.translate_condition gives
\* the string of the tree's to_sql and QTreeTranslator.translate_condition
\* the string of its to_latex; in all four every binary application stands
\* in parentheses and the text of an Identity is unchanged.
C30_ConditionRenderingsAgree ==
    Rendered =>
        /\ output.first.strings[1] = output.second.strings[1]
        /\ output.first.strings[2] = output.second.strings[2]
        /\ \A k \in 1..2 :
               LET string == output.first.strings[k] IN
               /\ stack[1].kind = "identity" => string = stack[1].ident
               /\ stack[1].kind = "binary" =>
                      /\ string[1] = "("
                      /\ string[Len(string)] = ")"
        /\ \A c \in SubConditions(stack[1]) :
               /\ c.kind = "identity" =>
                      /\ SQLTranslateCondition(c) = c.ident
                      /\ QTreeTranslateCondition(c) = c.ident
               /\ c.kind = "binary" =>
                      /\ Head(SQLTranslateCondition(c)) = "("
                      /\ Head(QTreeTranslateCondition(c)) = "("
                      /\ EndsWith(SQLTranslateCondition(c), <<")">>)
                      /\ EndsWith(QTreeTranslateCondition(c), <<")">>)

\* A comparison whose left operand is a DEFINED test was rendered.
C30_Witness ==
    /\ Rendered
    /\ stack[1].kind = "binary"
    /\ stack[1].op = "GREATER_THAN_EQUAL"
    /\ stack[1].children[1].kind = "unary"
    /\ stack[1].children[1].op = "DEFINED"
    /\ output.second.strings[2][1] = "("

====
